---- MODULE Spec2Model ----
(***************************************************************************)
(* brownie: OrderedDict (brownie/datastructures/mappings.py) and the       *)
(* caches built on it, LRUCache and LFUCache (brownie/caching.py).         *)
(*                                                                         *)
(* An OrderedDict is a dict (data) plus a circular doubly linked list of   *)
(* _Link objects (links, _root) and a key -> _Link table (_map).  An       *)
(* LRUCache is an OrderedDict with a maxsize.  An LFUCache is a dict       *)
(* (lfu) with a usage_counter and a maxsize.                               *)
(***************************************************************************)
EXTENDS Integers, Sequences, FiniteSets, TLC

VARIABLES
    cls,            \* the class of the object: OrderedDict, LRUCache or LFUCache
    data,           \* OrderedDict: the dict part, key -> value
    _map,           \* OrderedDict._map: key -> _Link
    links,          \* the heap of _Link objects: id -> [key, prev, next]
    _root,          \* OrderedDict._root: the sentinel _Link
    maxsize,        \* LRUCache.maxsize
    lfu,            \* LFUCache: the dict part, key -> value
    usage_counter,  \* LFUCache.usage_counter: a Counter, key -> count
    lfu_maxsize,    \* LFUCache.maxsize
    it,             \* an iterator over the OrderedDict: [kind, started, curr]
    memo,           \* the cache of a memoized function: a dict, key -> result
    called,         \* whether the last call of a decorated function called f
    _application_stack, \* ContextStackManagerBase._application_stack: items <<n, obj>>
    _stackop,       \* ContextStackManagerBase._stackop: the next number of count()
    _thread_lock,   \* ContextStackManagerThreadMixin._thread_lock: the holder or None
    objects,        \* the attribute objects of the threading.local, per thread
    thread,         \* the threads: [state, ident, pc, view]
    queue,          \* SetQueue.queue: the deque of Queue._init
    _set_of_items,  \* SetQueue._set_of_items
    unfinished_tasks, \* Queue.unfinished_tasks
    fetched,        \* the items that consumers hold: got and not yet task_done
    ready,          \* AsyncResult.ready
    result,         \* AsyncResult.value and AsyncResult.success: <<>> or <<value, success>>
    condition,      \* AsyncResult.condition: [lock, waiters]
    caller,         \* the threads that use the AsyncResult: [pc, method]
    iterator,       \* PeekableIterator.iterator: [items, pos]
    remaining,      \* PeekableIterator.remaining
    sequences,      \* CombinedList.sequences
    op,             \* the last operation, <<name, key>>
    exc,            \* the exception it raised, or "none"
    ret             \* what it returned: <<>> (None), <<value>> or <<key, value>>

vars == <<cls, data, _map, links, _root, maxsize, lfu, usage_counter, lfu_maxsize, it,
          memo, called,
          _application_stack, _stackop, _thread_lock, objects, thread,
          queue, _set_of_items, unfinished_tasks, fetched,
          ready, result, condition, caller,
          iterator, remaining, sequences,
          op, exc, ret>>

od_vars == <<data, _map, links, _root, maxsize>>
lfu_vars == <<lfu, usage_counter, lfu_maxsize>>
csm_vars == <<_application_stack, _stackop, _thread_lock, objects, thread>>
sq_vars == <<queue, _set_of_items, unfinished_tasks, fetched>>
ar_vars == <<ready, result, condition, caller>>
pi_vars == <<iterator, remaining>>
ds_vars == <<sq_vars, ar_vars, pi_vars, sequences>>

(***************************************************************************)
(* Bounds.                                                                 *)
(***************************************************************************)
MaxKey == 3         \* keys are 1..MaxKey
MaxSize == 3        \* the largest maxsize a cache is constructed with
MaxInit == 2        \* the longest sequence of pairs given to a constructor
MaxUpdate == 1      \* the longest sequence of pairs given to update
MaxDead == 2       \* unlinked _Links that an iterator still reaches
MaxCount == 1       \* LFUCache reads of one key are counted up to here
MaxArgs == 1        \* the most positional arguments in a call of a memoized function
MaxMemo == 2        \* a memoized function misses while its cache has fewer entries
MaxThreads == 2     \* the threads that use a ContextStackManager
MaxPush == 2        \* the pushes that a ContextStackManager counts
MaxTasks == 3       \* the puts that a SetQueue counts as unfinished tasks
MaxItems == 3       \* the most items of the iterable of a PeekableIterator
MaxLen == 3         \* the most items of each list of a CombinedList
MaxCallers == 3     \* the threads that use an AsyncResult

Keys == 1..MaxKey
Values == {"a", "b"}
None == 0           \* the key of the sentinel _Link
Capacities == (-1)..MaxSize

Pairs == Keys \X Values

RECURSIVE SeqsUpTo(_, _)
SeqsUpTo(S, n) ==
    IF n = 0 THEN {<<>>}
    ELSE LET shorter == SeqsUpTo(S, n - 1)
         IN shorter \cup {Append(q, x) : q \in {r \in shorter : Len(r) = n - 1}, x \in S}

Mappings == SeqsUpTo(Pairs, MaxInit)

Updates == SeqsUpTo(Pairs, MaxUpdate)

(***************************************************************************)
(* dict primitives.                                                        *)
(***************************************************************************)
Empty == [x \in {} |-> None]

Put(f, x, v) == [y \in DOMAIN f \cup {x} |-> IF y = x THEN v ELSE f[y]]

Del(f, x) == [y \in DOMAIN f \ {x} |-> f[y]]

(***************************************************************************)
(* The outcome of a method call: the object afterwards, the exception      *)
(* raised ("none" when it returned) and the value returned.                *)
(***************************************************************************)
Out(s, e, r) == [s |-> s, exc |-> e, ret |-> r]

Ok(s) == Out(s, "none", <<>>)

(***************************************************************************)
(* _Link objects.  links maps each live _Link to its prev and next; a      *)
(* _Link is named <<key, n>>, the n-th live _Link that holds key (the      *)
(* sentinel holds None), so that its key is the first component of its     *)
(* name.  A _Link that nothing refers to any more is dropped from links.   *)
(***************************************************************************)
KeyOf(link) == link[1]

NewLink(lk, key) ==
    LET n == CHOOSE i \in 0..Cardinality(DOMAIN lk) :
                 /\ <<key, i>> \notin DOMAIN lk
                 /\ \A j \in 0..(i - 1) : <<key, j>> \in DOMAIN lk
    IN <<key, n>>

\* OrderedDict.__init__, lines 471-473: an empty dict with a fresh sentinel
EmptyOD ==
    LET root == NewLink(Empty, None)
    IN [data |-> Empty, map |-> Empty, root |-> root,
        links |-> Put(Empty, root, [prev |-> root, next |-> root])]

\* __setitem__ that links a new key in at the front
OD_setitem_at_front(s, key, value) ==
    IF key \notin DOMAIN s.data
    THEN LET first == s.links[s.root].next
             link == NewLink(s.links, key)
             l0 == Put(s.links, link, [prev |-> s.root, next |-> first])
             l1 == [l0 EXCEPT ![first].prev = link]
             l2 == [l1 EXCEPT ![s.root].next = link]
         IN [s EXCEPT !.links = l2,
                      !.map = Put(s.map, key, link),
                      !.data = Put(s.data, key, value)]
    ELSE [s EXCEPT !.data = Put(s.data, key, value)]

\* OrderedDict.__setitem__
OD_setitem(s, key, value) ==
    IF key \notin DOMAIN s.data
    THEN LET last == s.links[s.root].prev
             link == NewLink(s.links, key)
             l0 == Put(s.links, link, [prev |-> last, next |-> s.root])
             l1 == [l0 EXCEPT ![last].next = link]
             l2 == [l1 EXCEPT ![s.root].prev = link]
         IN [s EXCEPT !.links = l2,
                      !.map = Put(s.map, key, link),
                      !.data = Put(s.data, key, value)]
    ELSE [s EXCEPT !.data = Put(s.data, key, value)]

\* OrderedDict.__delitem__; the unlinked _Link is garbage when it returns
OD_delitem(s, key) ==
    IF key \notin DOMAIN s.data THEN Out(s, "KeyError", <<>>)
    ELSE LET s1 == [s EXCEPT !.data = Del(s.data, key)]
         IN IF key \notin DOMAIN s.map THEN Out(s1, "KeyError", <<>>)
            ELSE LET link == s.map[key]
                     prev == s.links[link].prev
                     next == s.links[link].next
                     l1 == [s.links EXCEPT ![prev].next = next]
                     l2 == [l1 EXCEPT ![next].prev = prev]
                 IN Ok([s1 EXCEPT !.map = Del(s.map, key), !.links = Del(l2, link)])

\* OrderedDict.__iter__ / __reversed__: the keys met walking from the
\* sentinel until the sentinel is met again (fuel bounds a walk that never
\* comes back)
RECURSIVE Walk(_, _, _, _)
Walk(s, cur, forward, fuel) ==
    IF cur = s.root \/ fuel = 0 THEN <<>>
    ELSE <<KeyOf(cur)>> \o
         Walk(s, IF forward THEN s.links[cur].next ELSE s.links[cur].prev,
              forward, fuel - 1)

OD_iter(s) == Walk(s, s.links[s.root].next, TRUE, Cardinality(DOMAIN s.links))

OD_reversed(s) == Walk(s, s.links[s.root].prev, FALSE, Cardinality(DOMAIN s.links))

\* items that walks the list backwards
OD_items_reversed(s) ==
    LET keys == OD_reversed(s)
    IN [i \in 1..Len(keys) |-> <<keys[i], s.data[keys[i]]>>]

\* OrderedDict.items
OD_items(s) ==
    LET keys == OD_iter(s)
    IN [i \in 1..Len(keys) |-> <<keys[i], s.data[keys[i]]>>]

\* OrderedDict.__eq__ with another OrderedDict: all(i1 == i2 for i1, i2 in
\* izip(self.iteritems(), other.iteritems())); izip stops with the shorter
\* of the two
OD_eq(s, other) ==
    LET mine == OD_items(s)
        theirs == OD_items(other)
        n == IF Len(mine) <= Len(theirs) THEN Len(mine) ELSE Len(theirs)
    IN \A i \in 1..n : mine[i] = theirs[i]

\* OrderedDict.__ne__
OD_ne(s, other) == ~OD_eq(s, other)

\* OrderedDict.pop without default
OD_pop(s, key) ==
    IF key \notin DOMAIN s.data THEN Out(s, "KeyError", <<>>)
    ELSE LET value == s.data[key]
             d == OD_delitem(s, key)
         IN IF d.exc = "none" THEN Out(d.s, "none", <<value>>) ELSE d

\* popitem that takes the first item for last=True and the last otherwise
OD_popitem_wrong_end(s, last) ==
    IF DOMAIN s.data = {} THEN Out(s, "KeyError", <<>>)
    ELSE LET order == IF last THEN OD_iter(s) ELSE OD_reversed(s)
         IN IF order = <<>> THEN Out(s, "StopIteration", <<>>)
            ELSE LET p == OD_pop(s, order[1])
                 IN IF p.exc = "none" THEN Out(p.s, "none", <<order[1], p.ret[1]>>) ELSE p

\* OrderedDict.popitem
OD_popitem(s, last) ==
    IF DOMAIN s.data = {} THEN Out(s, "KeyError", <<>>)
    ELSE LET order == IF last THEN OD_reversed(s) ELSE OD_iter(s)
         IN IF order = <<>> THEN Out(s, "StopIteration", <<>>)
            ELSE LET p == OD_pop(s, order[1])
                 IN IF p.exc = "none" THEN Out(p.s, "none", <<order[1], p.ret[1]>>) ELSE p

\* move_to_end that links the _Link in at the end without unlinking it first
OD_move_to_end_no_unlink(s, key, last) ==
    IF key \notin DOMAIN s.data \/ key \notin DOMAIN s.map THEN Out(s, "KeyError", <<>>)
    ELSE LET link == s.map[key]
             l2 == s.links
         IN IF last
            THEN LET replacing == l2[s.root].prev
                     l3 == [l2 EXCEPT ![replacing].next = link]
                     l4 == [l3 EXCEPT ![s.root].prev = link]
                     l5 == [l4 EXCEPT ![link] = [prev |-> replacing, next |-> s.root]]
                 IN Ok([s EXCEPT !.links = l5])
            ELSE LET replacing == l2[s.root].next
                     l3 == [l2 EXCEPT ![s.root].next = link]
                     l4 == [l3 EXCEPT ![replacing].prev = link]
                     l5 == [l4 EXCEPT ![link] = [prev |-> s.root, next |-> replacing]]
                 IN Ok([s EXCEPT !.links = l5])

\* move_to_end that ignores last and always moves to the end
OD_move_to_end_ignores_last(s, key, last) ==
    IF key \notin DOMAIN s.data \/ key \notin DOMAIN s.map THEN Out(s, "KeyError", <<>>)
    ELSE LET link == s.map[key]
             prev == s.links[link].prev
             next == s.links[link].next
             l1 == [s.links EXCEPT ![prev].next = next]
             l2 == [l1 EXCEPT ![next].prev = prev]
             replacing == l2[s.root].prev
             l3 == [l2 EXCEPT ![replacing].next = link]
             l4 == [l3 EXCEPT ![s.root].prev = link]
             l5 == [l4 EXCEPT ![link] = [prev |-> replacing, next |-> s.root]]
         IN Ok([s EXCEPT !.links = l5])

\* move_to_end that moves a key already at the requested end to the other end
OD_move_to_end_toggle(s, key, last) ==
    IF key \notin DOMAIN s.data \/ key \notin DOMAIN s.map THEN Out(s, "KeyError", <<>>)
    ELSE LET link == s.map[key]
             there == link = (IF last THEN s.links[s.root].prev ELSE s.links[s.root].next)
             prev == s.links[link].prev
             next == s.links[link].next
             l1 == [s.links EXCEPT ![prev].next = next]
             l2 == [l1 EXCEPT ![next].prev = prev]
         IN IF last # there
            THEN LET replacing == l2[s.root].prev
                     l3 == [l2 EXCEPT ![replacing].next = link]
                     l4 == [l3 EXCEPT ![s.root].prev = link]
                     l5 == [l4 EXCEPT ![link] = [prev |-> replacing, next |-> s.root]]
                 IN Ok([s EXCEPT !.links = l5])
            ELSE LET replacing == l2[s.root].next
                     l3 == [l2 EXCEPT ![s.root].next = link]
                     l4 == [l3 EXCEPT ![replacing].prev = link]
                     l5 == [l4 EXCEPT ![link] = [prev |-> s.root, next |-> replacing]]
                 IN Ok([s EXCEPT !.links = l5])

\* OrderedDict.move_to_end
OD_move_to_end(s, key, last) ==
    IF key \notin DOMAIN s.data \/ key \notin DOMAIN s.map THEN Out(s, "KeyError", <<>>)
    ELSE LET link == s.map[key]
             prev == s.links[link].prev
             next == s.links[link].next
             l1 == [s.links EXCEPT ![prev].next = next]
             l2 == [l1 EXCEPT ![next].prev = prev]
         IN IF last
            THEN LET replacing == l2[s.root].prev
                     l3 == [l2 EXCEPT ![replacing].next = link]
                     l4 == [l3 EXCEPT ![s.root].prev = link]
                     l5 == [l4 EXCEPT ![link] = [prev |-> replacing, next |-> s.root]]
                 IN Ok([s EXCEPT !.links = l5])
            ELSE LET replacing == l2[s.root].next
                     l3 == [l2 EXCEPT ![s.root].next = link]
                     l4 == [l3 EXCEPT ![replacing].prev = link]
                     l5 == [l4 EXCEPT ![link] = [prev |-> s.root, next |-> replacing]]
                 IN Ok([s EXCEPT !.links = l5])

\* OrderedDict.setdefault
OD_setdefault(s, key, default) ==
    LET s1 == IF key \notin DOMAIN s.data THEN OD_setitem(s, key, default) ELSE s
    IN Out(s1, "none", <<s1.data[key]>>)

\* OrderedDict.update with one positional argument, a sequence of pairs
RECURSIVE OD_update(_, _)
OD_update(s, mapping) ==
    IF mapping = <<>> THEN s
    ELSE OD_update(OD_setitem(s, mapping[1][1], mapping[1][2]), Tail(mapping))

\* clear that empties the dict and _map and keeps the sentinel and its list
OD_clear_keeps_list(s) == [s EXCEPT !.data = Empty, !.map = Empty]

\* OrderedDict.clear, where kept are the _Links of the old list that something
\* other than the dict still refers to; the new sentinel is named among them
OD_clear_keeping(kept) ==
    LET root == NewLink(kept, None)
    IN [root |-> root,
        links |-> Put(kept, root, [prev |-> root, next |-> root]),
        map |-> Empty,
        data |-> Empty]

\* OrderedDict.clear when nothing else refers to a _Link: the old sentinel
\* and its list are garbage when it returns
OD_clear(s) == OD_clear_keeping(Empty)

\* OrderedDict.__init__
OD_init(mapping) == OD_update(EmptyOD, mapping)

(***************************************************************************)
(* LRUCache.                                                               *)
(***************************************************************************)
\* LRUCache.__init__: OrderedDict.__init__(self, mapping), then maxsize
LRU_init(mapping) == OD_init(mapping)

\* __getitem__ that looks the key up without moving it
LRU_getitem_no_move(s, key) ==
    IF key \in DOMAIN s.data THEN Out(s, "none", <<s.data[key]>>)
    ELSE Out(s, "KeyError", <<>>)

\* LRUCache.__getitem__
LRU_getitem(s, key) ==
    LET m == OD_move_to_end(s, key, TRUE)
    IN IF m.exc = "none" THEN Out(m.s, "none", <<m.s.data[key]>>) ELSE m

\* __setitem__ that drops the most recently used entry
LRU_setitem_drops_newest(s, size, key, value) ==
    IF Cardinality(DOMAIN s.data) >= size
    THEN LET p == OD_popitem(s, TRUE)
         IN IF p.exc = "none" THEN Ok(OD_setitem(p.s, key, value))
            ELSE Out(p.s, p.exc, <<>>)
    ELSE Ok(OD_setitem(s, key, value))

\* LRUCache.__setitem__
LRU_setitem(s, size, key, value) ==
    IF Cardinality(DOMAIN s.data) >= size
    THEN LET p == OD_popitem(s, FALSE)
         IN IF p.exc = "none" THEN Ok(OD_setitem(p.s, key, value))
            ELSE Out(p.s, p.exc, <<>>)
    ELSE Ok(OD_setitem(s, key, value))

(***************************************************************************)
(* The OrderedDict / LRUCache object of the state, and the step that an    *)
(* operation with outcome o makes.                                         *)
(***************************************************************************)
Self == [data |-> data, map |-> _map, links |-> links, root |-> _root]

\* no iterator exists
NoIterator == [kind |-> "none", started |-> FALSE, curr |-> <<None, 0>>]

\* no ContextStackManager exists
NoCSM ==
    /\ _application_stack = <<>>
    /\ _stackop = 0
    /\ _thread_lock = None
    /\ objects = <<>>
    /\ thread = <<>>

\* no SetQueue, AsyncResult, PeekableIterator or CombinedList exists
NoSetQueue == queue = <<>> /\ _set_of_items = {} /\ unfinished_tasks = 0 /\ fetched = 0

NoAsyncResult == ready = FALSE /\ result = <<>> /\ condition = <<>> /\ caller = <<>>

NoPeekableIterator == iterator = <<>> /\ remaining = <<>>

NoCombinedList == sequences = <<>>

NoDS == NoSetQueue /\ NoAsyncResult /\ NoPeekableIterator /\ NoCombinedList

\* Between two calls the caller has taken the outcome of the last one: an
\* operation starts when none is pending (Idle) and leaves its outcome in
\* op, exc and ret, and Return is the caller taking it.
Idle == op = <<"idle", None>>

Return ==
    /\ ~Idle
    /\ op' = <<"idle", None>> /\ exc' = "none" /\ ret' = <<>>
    /\ called' = FALSE
    /\ UNCHANGED <<cls, od_vars, lfu_vars, it, memo, csm_vars, ds_vars>>

Finish(name, key, o) ==
    /\ data' = o.s.data
    /\ _map' = o.s.map
    /\ links' = o.s.links
    /\ _root' = o.s.root
    /\ op' = <<name, key>>
    /\ exc' = o.exc
    /\ ret' = o.ret
    /\ UNCHANGED <<cls, maxsize, lfu_vars, it, memo, called, csm_vars, ds_vars>>

\* the operations every OrderedDict has; an LRUCache inherits them unchanged
Delete(key) == Idle /\ Finish("delete", key, OD_delitem(Self, key))

Pop(key) == Idle /\ Finish("pop", key, OD_pop(Self, key))

Popitem(last) ==
    Idle /\ Finish(IF last THEN "popitem" ELSE "popitem_first", None, OD_popitem(Self, last))

MoveToEnd(key, last) ==
    Idle /\ Finish(IF last THEN "move_to_end" ELSE "move_to_front", key, OD_move_to_end(Self, key, last))

Setdefault(key, default) == Idle /\ Finish("setdefault", key, OD_setdefault(Self, key, default))

Update(mapping) == Idle /\ Finish("update", None, Ok(OD_update(Self, mapping)))

Clear == Idle /\ Finish("clear", None, Ok(OD_clear(Self)))

\* OrderedDict only
ODSet(key, value) == Idle /\ Finish("set", key, Ok(OD_setitem(Self, key, value)))

\* d == OrderedDict(mapping) and d != OrderedDict(mapping)
Eq(mapping) == Idle /\ Finish("eq", None, Out(Self, "none", <<OD_eq(Self, OD_init(mapping))>>))

Ne(mapping) == Idle /\ Finish("ne", None, Out(Self, "none", <<OD_ne(Self, OD_init(mapping))>>))

\* LRUCache only
LRUGet(key) == Idle /\ Finish("get", key, LRU_getitem(Self, key))

LRUSet(key, value) == Idle /\ Finish("set", key, LRU_setitem(Self, maxsize, key, value))

Inherited ==
    \/ \E k \in Keys : Delete(k)
    \/ \E k \in Keys : Pop(k)
    \/ \E l \in BOOLEAN : Popitem(l)
    \/ \E k \in Keys, l \in BOOLEAN : MoveToEnd(k, l)
    \/ \E k \in Keys, v \in Values : Setdefault(k, v)
    \/ \E m \in Updates : Update(m)
    \/ Clear

NoLFU == lfu = Empty /\ usage_counter = Empty /\ lfu_maxsize = 0

InitOD ==
    /\ memo = Empty /\ called = FALSE
    /\ NoCSM
    /\ NoDS
    /\ it = NoIterator
    /\ cls = "OrderedDict"
    /\ \E m \in Mappings :
          LET c == OD_init(m)
          IN data = c.data /\ _map = c.map /\ links = c.links /\ _root = c.root
    /\ maxsize = 0
    /\ NoLFU
    /\ op = <<"init", None>> /\ exc = "none" /\ ret = <<>>

NextOD ==
    \/ \E k \in Keys, v \in Values : ODSet(k, v)
    \/ \E m \in Mappings : Eq(m)
    \/ \E m \in Mappings : Ne(m)
    \/ Inherited
    \/ Return

SpecOD == InitOD /\ [][NextOD]_vars

InitLRU ==
    /\ memo = Empty /\ called = FALSE
    /\ NoCSM
    /\ NoDS
    /\ it = NoIterator
    /\ cls = "LRUCache"
    /\ \E m \in Mappings :
          LET c == LRU_init(m)
          IN data = c.data /\ _map = c.map /\ links = c.links /\ _root = c.root
    /\ maxsize \in Capacities
    /\ NoLFU
    /\ op = <<"init", None>> /\ exc = "none" /\ ret = <<>>

NextLRU ==
    \/ \E k \in Keys : LRUGet(k)
    \/ \E k \in Keys, v \in Values : LRUSet(k, v)
    \/ Inherited
    \/ Return

SpecLRU == InitLRU /\ [][NextLRU]_vars

(***************************************************************************)
(* Counter and LFUCache.  An LFUCache object is [data, counter]: the dict  *)
(* part and usage_counter.                                                 *)
(***************************************************************************)
\* Counter.__missing__ / Counter.__getitem__
Count(counter, key) == IF key \in DOMAIN counter THEN counter[key] ELSE 0

\* Counter.most_common(n): heapq.nlargest(n, items, key=count), the keys of
\* the n largest counts, largest first; nlargest orders equal counts by the
\* iteration order of the dict, which depends on the hashes of the keys, so
\* every order of equal counts is a possible result
RECURSIVE MostCommon(_, _)
MostCommon(counter, n) ==
    IF n <= 0 \/ DOMAIN counter = {} THEN {<<>>}
    ELSE LET largest == {k \in DOMAIN counter :
                            \A j \in DOMAIN counter : counter[k] >= counter[j]}
         IN UNION {{<<k>> \o q : q \in MostCommon(Del(counter, k), n - 1)} :
                     k \in largest}

\* dict.__init__(self, mapping) for a sequence of pairs
RECURSIVE DictOf(_, _)
DictOf(d, mapping) ==
    IF mapping = <<>> THEN d
    ELSE DictOf(Put(d, mapping[1][1], mapping[1][2]), Tail(mapping))

\* LFUCache.__init__
LFU_init(mapping) == [data |-> DictOf(Empty, mapping), counter |-> Empty]

\* __getitem__ that does not count the read
LFU_getitem_no_count(s, key) ==
    IF key \notin DOMAIN s.data THEN Out(s, "KeyError", <<>>)
    ELSE Out(s, "none", <<s.data[key]>>)

\* __getitem__ that counts the read before it looks the key up
LFU_getitem_counts_first(s, key) ==
    LET s1 == [s EXCEPT !.counter = Put(s.counter, key, Count(s.counter, key) + 1)]
    IN IF key \notin DOMAIN s.data THEN Out(s1, "KeyError", <<>>)
       ELSE Out(s1, "none", <<s.data[key]>>)

\* LFUCache.__getitem__
LFU_getitem(s, key) ==
    IF key \notin DOMAIN s.data THEN Out(s, "KeyError", <<>>)
    ELSE Out([s EXCEPT !.counter = Put(s.counter, key, Count(s.counter, key) + 1)],
             "none", <<s.data[key]>>)

\* LFUCache.__delitem__
LFU_delitem(s, key) ==
    IF key \notin DOMAIN s.data THEN Out(s, "KeyError", <<>>)
    ELSE LET s1 == [s EXCEPT !.data = Del(s.data, key)]
         IN IF key \notin DOMAIN s.counter THEN Out(s1, "KeyError", <<>>)
            ELSE Ok([s1 EXCEPT !.counter = Del(s.counter, key)])

\* the loop of LFUCache.__setitem__, lines 116-117: del self[key] for each
\* key of the list, until one raises
RECURSIVE LFU_evict(_, _)
LFU_evict(s, q) ==
    IF q = <<>> THEN Ok(s)
    ELSE LET d == LFU_delitem(s, q[1])
         IN IF d.exc = "none" THEN LFU_evict(d.s, Tail(q)) ELSE d

\* LFUCache.__setitem__: the set of its possible outcomes, one for each
\* result most_common can give
LFU_setitem(s, size, key, value) ==
    LET s1 == [s EXCEPT !.data = Put(s.data, key, value)]
    IN {LFU_evict(s1, q) : q \in MostCommon(s.counter, Cardinality(DOMAIN s1.data) - size)}

\* LFUCache.pop without default
LFU_pop(s, key) ==
    LET g == LFU_getitem(s, key)
    IN IF g.exc # "none" THEN g
       ELSE LET d == LFU_delitem(g.s, key)
            IN IF d.exc = "none" THEN Out(d.s, "none", g.ret) ELSE d

\* LFUCache.setdefault
LFU_setdefault(s, size, key, default) ==
    IF key \notin DOMAIN s.data
    THEN {IF o.exc = "none" THEN LFU_getitem(o.s, key) ELSE o :
            o \in LFU_setitem(s, size, key, default)}
    ELSE {LFU_getitem(s, key)}

\* dict.clear, which LFUCache inherits
LFU_clear(s) == [s EXCEPT !.data = Empty]

\* LFUCache.popitem: dict.__popitem__ is looked up first, and dict has no
\* attribute of that name
LFU_popitem(s) == Out(s, "AttributeError", <<>>)

\* the function a cache decorates
F(key) == IF key % 2 = 1 THEN "a" ELSE "b"

\* The outcome of a call of a decorated function: the cache afterwards, the
\* exception raised, the value returned and whether f was called.
Called(o, c) == [s |-> o.s, exc |-> o.exc, ret |-> o.ret, called |-> c]

\* wrapper of CacheBase.decorate on an LFUCache, for a call with the
\* arguments key of an f that raises (fails) or returns F(key)
Wrapper_LFU(s, size, key, fails) ==
    LET g == LFU_getitem(s, key)
    IN IF g.exc = "none" THEN {Called(g, FALSE)}
       ELSE IF fails THEN {Called(Out(s, "Exception", <<>>), TRUE)}
       ELSE {Called(IF o.exc = "none" THEN Out(o.s, "none", <<F(key)>>) ELSE o, TRUE) :
               o \in LFU_setitem(s, size, key, F(key))}

LFUSelf == [data |-> lfu, counter |-> usage_counter]

LFUFinish(name, key, o) ==
    /\ lfu' = o.s.data
    /\ usage_counter' = o.s.counter
    /\ op' = <<name, key>>
    /\ exc' = o.exc
    /\ ret' = o.ret
    /\ UNCHANGED <<cls, od_vars, lfu_maxsize, it, memo, called, csm_vars, ds_vars>>

\* a read is counted up to MaxCount
CanRead(key) == Count(usage_counter, key) < MaxCount

LFUGet(key) == Idle /\ CanRead(key) /\ LFUFinish("get", key, LFU_getitem(LFUSelf, key))

LFUSet(key, value) ==
    Idle /\ \E o \in LFU_setitem(LFUSelf, lfu_maxsize, key, value) : LFUFinish("set", key, o)

LFUDelete(key) == Idle /\ LFUFinish("delete", key, LFU_delitem(LFUSelf, key))

LFUPop(key) == Idle /\ CanRead(key) /\ LFUFinish("pop", key, LFU_pop(LFUSelf, key))

LFUSetdefault(key, default) ==
    /\ Idle
    /\ CanRead(key)
    /\ \E o \in LFU_setdefault(LFUSelf, lfu_maxsize, key, default) :
          LFUFinish("setdefault", key, o)

LFUClear == Idle /\ LFUFinish("clear", None, Ok(LFU_clear(LFUSelf)))

LFUPopitem == Idle /\ LFUFinish("popitem", None, LFU_popitem(LFUSelf))

LFUCall(key, fails) ==
    /\ Idle
    /\ CanRead(key)
    /\ \E o \in Wrapper_LFU(LFUSelf, lfu_maxsize, key, fails) :
          /\ lfu' = o.s.data
          /\ usage_counter' = o.s.counter
          /\ op' = <<"call", key>>
          /\ exc' = o.exc
          /\ ret' = o.ret
          /\ called' = o.called
    /\ UNCHANGED <<cls, od_vars, lfu_maxsize, it, memo, csm_vars, ds_vars>>

NoOD ==
    /\ data = EmptyOD.data /\ _map = EmptyOD.map
    /\ links = EmptyOD.links /\ _root = EmptyOD.root
    /\ maxsize = 0

InitLFU ==
    /\ memo = Empty /\ called = FALSE
    /\ NoCSM
    /\ NoDS
    /\ it = NoIterator
    /\ cls = "LFUCache"
    /\ \E m \in Mappings :
          lfu = LFU_init(m).data /\ usage_counter = LFU_init(m).counter
    /\ lfu_maxsize \in Capacities
    /\ NoOD
    /\ op = <<"init", None>> /\ exc = "none" /\ ret = <<>>

NextLFU ==
    \/ \E k \in Keys : LFUGet(k)
    \/ \E k \in Keys, v \in Values : LFUSet(k, v)
    \/ \E k \in Keys : LFUDelete(k)
    \/ \E k \in Keys : LFUPop(k)
    \/ \E k \in Keys, v \in Values : LFUSetdefault(k, v)
    \/ LFUClear
    \/ LFUPopitem
    \/ \E k \in Keys, fails \in BOOLEAN : LFUCall(k, fails)
    \/ Return

SpecLFU == InitLFU /\ [][NextLFU]_vars

(***************************************************************************)
(* Decorated functions.  CacheBase.decorate(maxsize) makes cache =          *)
(* cls(maxsize=maxsize) and a wrapper that looks the key of a call up in    *)
(* the cache and calls the function when the lookup raises KeyError;        *)
(* wrapper.clear is cache.clear.  The cache belongs to the wrapper: only a  *)
(* call and clear touch it.                                                 *)
(***************************************************************************)
\* wrapper of CacheBase.decorate on an LRUCache
Wrapper_LRU(s, size, key, fails) ==
    LET g == LRU_getitem(s, key)
    IN IF g.exc = "none" THEN Called(g, FALSE)
       ELSE IF fails THEN Called(Out(s, "Exception", <<>>), TRUE)
       ELSE LET o == LRU_setitem(s, size, key, F(key))
            IN Called(IF o.exc = "none" THEN Out(o.s, "none", <<F(key)>>) ELSE o, TRUE)

LRUCall(key, fails) ==
    /\ Idle
    /\ LET o == Wrapper_LRU(Self, maxsize, key, fails)
       IN /\ data' = o.s.data
          /\ _map' = o.s.map
          /\ links' = o.s.links
          /\ _root' = o.s.root
          /\ op' = <<"call", key>>
          /\ exc' = o.exc
          /\ ret' = o.ret
          /\ called' = o.called
    /\ UNCHANGED <<cls, maxsize, lfu_vars, it, memo, csm_vars, ds_vars>>

\* LRUCache.decorate(maxsize)(f)
InitLRUDecorated ==
    /\ cls = "LRUCache"
    /\ LET c == LRU_init(<<>>)
       IN data = c.data /\ _map = c.map /\ links = c.links /\ _root = c.root
    /\ maxsize \in Capacities
    /\ NoLFU
    /\ NoCSM
    /\ NoDS
    /\ it = NoIterator /\ memo = Empty /\ called = FALSE
    /\ op = <<"init", None>> /\ exc = "none" /\ ret = <<>>

NextLRUDecorated ==
    \/ \E k \in Keys, fails \in BOOLEAN : LRUCall(k, fails)
    \/ Clear
    \/ Return

SpecLRUDecorated == InitLRUDecorated /\ [][NextLRUDecorated]_vars

\* LFUCache.decorate(maxsize)(f)
InitLFUDecorated ==
    /\ cls = "LFUCache"
    /\ lfu = LFU_init(<<>>).data /\ usage_counter = LFU_init(<<>>).counter
    /\ lfu_maxsize \in Capacities
    /\ NoOD
    /\ NoCSM
    /\ NoDS
    /\ it = NoIterator /\ memo = Empty /\ called = FALSE
    /\ op = <<"init", None>> /\ exc = "none" /\ ret = <<>>

NextLFUDecorated ==
    \/ \E k \in Keys, fails \in BOOLEAN : LFUCall(k, fails)
    \/ LFUClear
    \/ Return

SpecLFUDecorated == InitLFUDecorated /\ [][NextLFUDecorated]_vars

(***************************************************************************)
(* memoize(f): decorate() on the class _MemoizeCache(dict, CacheBase).      *)
(* The cache is a plain dict whose keys are the tuples                      *)
(* args + tuple(sorted(kwargs.iteritems())).  A str x is recorded as <<x>>  *)
(* and a tuple of two strs as a pair, so that a key is a sequence of such   *)
(* values.                                                                  *)
(***************************************************************************)
\* keyword names, in the order sorted() gives them
KwNames == <<"a", "b">>

\* positional arguments: the str '1' and the tuple ('a', '1')
ArgValues == {<<"1">>, <<"a", "1">>}

ArgTuples == SeqsUpTo(ArgValues, MaxArgs)

\* the keyword arguments as written in a call: name=value, ..., each name once
KwSeqs ==
    {q \in SeqsUpTo({KwNames[i] : i \in 1..Len(KwNames)} \X {"1"}, Len(KwNames)) :
        \A i, j \in 1..Len(q) : q[i][1] = q[j][1] => i = j}

\* kwargs: the dict the call builds
KwDict(q) == [n \in {q[i][1] : i \in 1..Len(q)} |->
                 q[CHOOSE i \in 1..Len(q) : q[i][1] = n][2]]

\* kwargs.iteritems(): the items in the order of the dict, which depends on
\* the hashes of the names, so any order is possible
RECURSIVE ItemOrders(_)
ItemOrders(d) ==
    IF DOMAIN d = {} THEN {<<>>}
    ELSE UNION {{<< <<n, d[n]>> >> \o q : q \in ItemOrders(Del(d, n))} : n \in DOMAIN d}

\* position of a keyword name in sorted order
Rank(n) == CHOOSE i \in 1..Len(KwNames) : KwNames[i] = n

\* sort that leaves the items as they come
Sorted_as_given(items) == items

\* sorted(items): by name, insertion sort
RECURSIVE Sorted(_)
Sorted(items) ==
    IF items = <<>> THEN <<>>
    ELSE LET rest == Sorted(Tail(items))
             x == items[1]
             before == SelectSeq(rest, LAMBDA y : Rank(y[1]) < Rank(x[1]))
             after == SelectSeq(rest, LAMBDA y : Rank(y[1]) >= Rank(x[1]))
         IN before \o <<x>> \o after

\* lines 59-61: key = args; if kwargs: key += tuple(sorted(kwargs.iteritems()))
MakeKey(args, items) == IF items = <<>> THEN args ELSE args \o Sorted(items)

\* the decorated function: its result tells the arguments of the call apart
FM(args, kwargs) ==
    args \o << <<"**">> >> \o
    SelectSeq([i \in 1..Len(KwNames) |->
                  IF KwNames[i] \in DOMAIN kwargs
                  THEN <<KwNames[i], kwargs[KwNames[i]]>> ELSE <<>>],
              LAMBDA x : x # <<>>)

\* the key 'maxsize', a str and so no tuple of arguments, and its value
MaxsizeKey == << <<"str", "maxsize", "">> >>
Inf == << <<"inf">> >>

\* cls(maxsize=maxsize) for a subclass of dict without an __init__:
\* dict(maxsize=inf), a dict with one item
Memo_init == Put(Empty, MaxsizeKey, Inf)

\* wrapper that calls the function on every call
Wrapper_memo_always_calls(s, args, kwseq, fails) ==
    LET kwargs == KwDict(kwseq)
    IN {IF fails THEN Called(Out(s, "Exception", <<>>), TRUE)
        ELSE Called(Out(Put(s, MakeKey(args, items), FM(args, kwargs)),
                        "none", <<FM(args, kwargs)>>), TRUE) :
          items \in ItemOrders(kwargs)}

\* wrapper that stores a marker when the function raises
Wrapper_memo_caches_failure(s, args, kwseq, fails) ==
    LET kwargs == KwDict(kwseq)
    IN {LET key == MakeKey(args, items)
        IN IF key \in DOMAIN s THEN Called(Out(s, "none", <<s[key]>>), FALSE)
           ELSE IF fails
           THEN Called(Out(Put(s, key, << <<"Exception">> >>), "Exception", <<>>), TRUE)
           ELSE Called(Out(Put(s, key, FM(args, kwargs)),
                           "none", <<FM(args, kwargs)>>), TRUE) :
          items \in ItemOrders(kwargs)}

\* wrapper of CacheBase.decorate on a dict; fails: the function raises
Wrapper_memo(s, args, kwseq, fails) ==
    LET kwargs == KwDict(kwseq)
    IN {LET key == MakeKey(args, items)
        IN IF key \in DOMAIN s THEN Called(Out(s, "none", <<s[key]>>), FALSE)
           ELSE IF fails THEN Called(Out(s, "Exception", <<>>), TRUE)
           ELSE Called(Out(Put(s, key, FM(args, kwargs)),
                           "none", <<FM(args, kwargs)>>), TRUE) :
          items \in ItemOrders(kwargs)}

MemoCall(args, kwseq, fails) ==
    /\ Idle
    /\ \E o \in Wrapper_memo(memo, args, kwseq, fails) :
          /\ o.s # memo => Cardinality(DOMAIN memo) < MaxMemo
          /\ memo' = o.s
          /\ op' = <<"call", <<args, kwseq>>>>
          /\ exc' = o.exc
          /\ ret' = o.ret
          /\ called' = o.called
    /\ UNCHANGED <<cls, od_vars, lfu_vars, it, csm_vars, ds_vars>>

\* wrapper.clear: dict.clear of the cache
MemoClear ==
    /\ Idle
    /\ memo' = Empty
    /\ op' = <<"clear", None>>
    /\ exc' = "none"
    /\ ret' = <<>>
    /\ called' = FALSE
    /\ UNCHANGED <<cls, od_vars, lfu_vars, it, csm_vars, ds_vars>>

\* memoize(f)
InitMemo ==
    /\ cls = "_MemoizeCache"
    /\ memo = Memo_init
    /\ NoOD
    /\ NoLFU
    /\ NoCSM
    /\ NoDS
    /\ it = NoIterator /\ called = FALSE
    /\ op = <<"init", None>> /\ exc = "none" /\ ret = <<>>

NextMemo ==
    \/ \E args \in ArgTuples, kwseq \in KwSeqs, fails \in BOOLEAN :
          MemoCall(args, kwseq, fails)
    \/ MemoClear
    \/ Return

SpecMemo == InitMemo /\ [][NextMemo]_vars

\* a function decorated with memoize, LRUCache.decorate or LFUCache.decorate
InitDecorated == InitMemo \/ InitLRUDecorated \/ InitLFUDecorated

NextDecorated ==
    \/ cls = "_MemoizeCache" /\ NextMemo
    \/ cls = "LRUCache" /\ NextLRUDecorated
    \/ cls = "LFUCache" /\ NextLFUDecorated

SpecDecorated == InitDecorated /\ [][NextDecorated]_vars

(***************************************************************************)
(* Iteration over an OrderedDict that is mutated between the steps.         *)
(* iterkeys is the generator __iter__, which holds curr, a _Link;           *)
(* itervalues looks each key it yields up in the dict, and iteritems zips   *)
(* the two.  A _Link that was unlinked stays in links for as long as the    *)
(* iterator reaches it through next.                                        *)
(***************************************************************************)
\* the _Links met following next from cur
RECURSIVE Reach(_, _, _)
Reach(heap, cur, seen) ==
    IF cur \in seen \/ cur \notin DOMAIN heap THEN seen
    ELSE Reach(heap, heap[cur].next, seen \cup {cur})

\* the _Links the dict s refers to
LiveLinks(s) == {s.root} \cup {s.map[k] : k \in DOMAIN s.map}

\* heap without the _Links that neither the dict s nor the iterator i
\* reaches.  Of an unlinked _Link only key and next are ever read again (by
\* the iterator), so its prev is not kept: it is recorded as the _Link itself
Collect(heap, s, i) ==
    LET keep == LiveLinks(s) \cup (IF i.started THEN Reach(heap, i.curr, {}) ELSE {})
    IN [n \in keep \cap DOMAIN heap |->
          IF n \in LiveLinks(s) THEN heap[n] ELSE [prev |-> n, next |-> heap[n].next]]

Dead(heap, s) == Cardinality(DOMAIN heap \ LiveLinks(s))

\* a mutating call with outcome o while the iterator may be in progress
Mutate(name, key, o) ==
    LET merged == [n \in DOMAIN links \cup DOMAIN o.s.links |->
                     IF n \in DOMAIN o.s.links THEN o.s.links[n] ELSE links[n]]
        heap == Collect(merged, o.s, it)
    IN /\ Dead(heap, o.s) <= MaxDead
       /\ data' = o.s.data
       /\ _map' = o.s.map
       /\ links' = heap
       /\ _root' = o.s.root
       /\ op' = <<name, key>>
       /\ exc' = o.exc
       /\ ret' = o.ret
       /\ UNCHANGED <<cls, maxsize, lfu_vars, it, memo, called, csm_vars, ds_vars>>

IterSet(key, value) == Idle /\ Mutate("set", key, Ok(OD_setitem(Self, key, value)))

IterDelete(key) == Idle /\ Mutate("delete", key, OD_delitem(Self, key))

IterMoveToEnd(key, last) ==
    Idle /\ Mutate(IF last THEN "move_to_end" ELSE "move_to_front", key,
                   OD_move_to_end(Self, key, last))

IterClear ==
    Idle /\ Mutate("clear", None,
                   Ok(OD_clear_keeping(
                        IF it.started
                        THEN [n \in Reach(links, it.curr, {}) |-> links[n]]
                        ELSE Empty)))

\* d.iterkeys(), d.itervalues() or d.iteritems(): nothing runs yet
IterNew(kind) ==
    /\ Idle /\ it = NoIterator
    /\ it' = [kind |-> kind, started |-> FALSE, curr |-> _root]
    /\ op' = <<"iter", None>> /\ exc' = "none" /\ ret' = <<>>
    /\ UNCHANGED <<cls, od_vars, lfu_vars, memo, called, csm_vars, ds_vars>>

\* one next() on the iterator
IterNext ==
    /\ Idle /\ it # NoIterator
    /\ LET curr == IF it.started THEN links[it.curr].next ELSE links[_root].next
           key == KeyOf(curr)
           stop == curr = _root
           fail == ~stop /\ it.kind \in {"values", "items"} /\ key \notin DOMAIN data
           it2 == IF stop \/ fail THEN NoIterator
                  ELSE [kind |-> it.kind, started |-> TRUE, curr |-> curr]
       IN /\ it' = it2
          /\ links' = Collect(links, Self, it2)
          /\ op' = <<"next", None>>
          /\ exc' = IF stop THEN "StopIteration" ELSE IF fail THEN "KeyError" ELSE "none"
          /\ ret' = IF stop \/ fail THEN <<>>
                    ELSE IF it.kind = "keys" THEN <<key>>
                    ELSE IF it.kind = "values" THEN <<data[key]>>
                    ELSE <<key, data[key]>>
    /\ UNCHANGED <<cls, data, _map, _root, maxsize, lfu_vars, memo, called, csm_vars, ds_vars>>

InitIter == InitOD

NextIter ==
    \/ \E kind \in {"keys", "values", "items"} : IterNew(kind)
    \/ IterNext
    \/ \E k \in Keys, v \in Values : IterSet(k, v)
    \/ \E k \in Keys : IterDelete(k)
    \/ \E k \in Keys, l \in BOOLEAN : IterMoveToEnd(k, l)
    \/ IterClear
    \/ Return

SpecIter == InitIter /\ [][NextIter]_vars

(***************************************************************************)
(* ContextStackManager: the class ThreadContextStackManager                *)
(* (ContextStackManagerThreadMixin, ContextStackManagerBase) used by the   *)
(* threads of a program.  Its _cache is an LFUCache: lfu, usage_counter    *)
(* and lfu_maxsize.  A thread runs one method at a time and other threads  *)
(* run between its statements; thread[t].pc is the statement a thread is   *)
(* at.  A step that ends a call leaves <<method, thread>> in op and the    *)
(* outcome in exc and ret; any other step leaves <<"idle", None>>.         *)
(***************************************************************************)
Threads == 1..MaxThreads

\* the thread that makes the ContextStackManager
FirstThread == 1

\* The object of a push.  Every push is given an object of its own, told
\* apart by the number of the push and by where it is pushed: owner is the
\* pushing thread for the thread stack and None for the application stack.
NewObject(owner) == <<_stackop, owner>>

\* a Thread that was not started
NewThread == [state |-> "new", ident |-> None, pc |-> "idle", view |-> <<>>]

Running(t) == thread[t].state = "running"

At(t, pc) == Running(t) /\ thread[t].pc = pc

Goto(t, pc, view) == thread' = [thread EXCEPT ![t].pc = pc, ![t].view = view]

Completed(name, t, e, r) == op' = <<name, t>> /\ exc' = e /\ ret' = r

Pending == op' = <<"idle", None>> /\ exc' = "none" /\ ret' = <<>>

Reversed(q) == [i \in 1..Len(q) |-> q[Len(q) + 1 - i]]

\* _get_ident: () + (thread.get_ident(), )
CSM_get_ident(t) == thread[t].ident

\* iter_current_stack, lines 119-123: the items of the application stack and
\* of the contexts, reversed, and of each item the object
CSM_current_stack(t) ==
    LET items == Reversed(_application_stack \o objects[t])
    IN [i \in 1..Len(items) |-> items[i][2]]

\* Thread.start(): the thread gets an identifier that no running thread has;
\* the identifier of a thread that has ended may be used again.  Threads are
\* numbered in the order they are started.
ThreadStart(t) ==
    /\ thread[t].state = "new"
    /\ \A u \in Threads : u < t => thread[u].state # "new"
    /\ \E i \in Threads :
          /\ \A u \in Threads : Running(u) => thread[u].ident # i
          /\ thread' = [thread EXCEPT ![t].state = "running", ![t].ident = i]
    /\ Pending
    /\ UNCHANGED <<cls, od_vars, lfu_vars, it, memo, called,
                   _application_stack, _stackop, _thread_lock, objects, ds_vars>>

\* the function of a thread returns; its thread-local data goes with it
ThreadEnd(t) ==
    /\ At(t, "idle")
    /\ thread' = [thread EXCEPT ![t] = [NewThread EXCEPT !.state = "ended"]]
    /\ objects' = [objects EXCEPT ![t] = <<>>]
    /\ Pending
    /\ UNCHANGED <<cls, od_vars, lfu_vars, it, memo, called,
                   _application_stack, _stackop, _thread_lock, ds_vars>>

\* iter_current_stack, lines 116-122
IterStart(t) ==
    /\ At(t, "idle")
    /\ IF CSM_get_ident(t) \in DOMAIN lfu
       THEN /\ Completed("iter_current_stack", t, "none", <<lfu[CSM_get_ident(t)]>>)
            /\ UNCHANGED thread
       ELSE /\ Goto(t, "iter_store", CSM_current_stack(t))
            /\ Pending
    /\ UNCHANGED <<cls, od_vars, lfu_vars, it, memo, called,
                   _application_stack, _stackop, _thread_lock, objects, ds_vars>>

\* iter_current_stack, lines 123-124
IterStore(t) ==
    /\ At(t, "iter_store")
    /\ \E o \in LFU_setitem(LFUSelf, lfu_maxsize, CSM_get_ident(t), thread[t].view) :
          /\ lfu' = o.s.data
          /\ usage_counter' = o.s.counter
          /\ Completed("iter_current_stack", t, o.exc,
                       IF o.exc = "none" THEN <<thread[t].view>> ELSE <<>>)
    /\ Goto(t, "idle", <<>>)
    /\ UNCHANGED <<cls, od_vars, lfu_maxsize, it, memo, called,
                   _application_stack, _stackop, _thread_lock, objects, ds_vars>>

\* push_application, line 130
PushApplication(t) ==
    /\ At(t, "idle")
    /\ _stackop < MaxPush
    /\ _application_stack' = Append(_application_stack, <<_stackop, NewObject(None)>>)
    /\ _stackop' = _stackop + 1
    /\ Goto(t, "push_application_clear", <<>>)
    /\ Pending
    /\ UNCHANGED <<cls, od_vars, lfu_vars, it, memo, called, _thread_lock, objects, ds_vars>>

\* push_application, line 131
PushApplicationClear(t) ==
    /\ At(t, "push_application_clear")
    /\ lfu' = LFU_clear(LFUSelf).data
    /\ usage_counter' = LFU_clear(LFUSelf).counter
    /\ Goto(t, "idle", <<>>)
    /\ Completed("push_application", t, "none", <<>>)
    /\ UNCHANGED <<cls, od_vars, lfu_maxsize, it, memo, called,
                   _application_stack, _stackop, _thread_lock, objects, ds_vars>>

\* pop_application, lines 137-139
PopApplication(t) ==
    /\ At(t, "idle")
    /\ IF _application_stack = <<>>
       THEN /\ Completed("pop_application", t, "RuntimeError", <<>>)
            /\ UNCHANGED <<thread, lfu, usage_counter>>
       ELSE /\ lfu' = LFU_clear(LFUSelf).data
            /\ usage_counter' = LFU_clear(LFUSelf).counter
            /\ Goto(t, "pop_application_pop", <<>>)
            /\ Pending
    /\ UNCHANGED <<cls, od_vars, lfu_maxsize, it, memo, called,
                   _application_stack, _stackop, _thread_lock, objects, ds_vars>>

\* pop_application, line 140; list.pop() of an empty list raises IndexError
PopApplicationPop(t) ==
    /\ At(t, "pop_application_pop")
    /\ IF _application_stack = <<>>
       THEN /\ Completed("pop_application", t, "IndexError", <<>>)
            /\ UNCHANGED _application_stack
       ELSE /\ Completed("pop_application", t, "none",
                         <<_application_stack[Len(_application_stack)][2]>>)
            /\ _application_stack' =
                  SubSeq(_application_stack, 1, Len(_application_stack) - 1)
    /\ Goto(t, "idle", <<>>)
    /\ UNCHANGED <<cls, od_vars, lfu_vars, it, memo, called,
                   _stackop, _thread_lock, objects, ds_vars>>

\* push_thread, lines 27-28: the lock is taken and _add_object appends the
\* item to the objects of the calling thread
PushThread(t) ==
    /\ At(t, "idle")
    /\ _thread_lock = None
    /\ _stackop < MaxPush
    /\ _thread_lock' = t
    /\ objects' = [objects EXCEPT ![t] = Append(@, <<_stackop, NewObject(t)>>)]
    /\ _stackop' = _stackop + 1
    /\ Goto(t, "push_thread_clear", <<>>)
    /\ Pending
    /\ UNCHANGED <<cls, od_vars, lfu_vars, it, memo, called, _application_stack, ds_vars>>

\* push_thread, line 29, and the release of the lock
PushThreadClear(t) ==
    /\ At(t, "push_thread_clear")
    /\ lfu' = LFU_clear(LFUSelf).data
    /\ usage_counter' = LFU_clear(LFUSelf).counter
    /\ _thread_lock' = None
    /\ Goto(t, "idle", <<>>)
    /\ Completed("push_thread", t, "none", <<>>)
    /\ UNCHANGED <<cls, od_vars, lfu_maxsize, it, memo, called,
                   _application_stack, _stackop, objects, ds_vars>>

\* pop_thread, lines 35-36: the lock is taken, self._get_stack is looked up,
\* which no class defines, and the AttributeError releases the lock
PopThread(t) ==
    /\ At(t, "idle")
    /\ _thread_lock = None
    /\ Completed("pop_thread", t, "AttributeError", <<>>)
    /\ UNCHANGED <<cls, od_vars, lfu_vars, it, memo, called, csm_vars, ds_vars>>

\* ThreadContextStackManager() made in the first thread
InitCSM ==
    /\ cls = "ThreadContextStackManager"
    /\ NoOD
    /\ NoDS
    /\ it = NoIterator /\ memo = Empty /\ called = FALSE
    /\ lfu = LFU_init(<<>>).data /\ usage_counter = LFU_init(<<>>).counter
    /\ lfu_maxsize = 256
    /\ _application_stack = <<>>
    /\ _stackop = 0
    /\ _thread_lock = None
    /\ objects = [t \in Threads |-> <<>>]
    /\ thread = [t \in Threads |->
                    IF t = FirstThread
                    THEN [NewThread EXCEPT !.state = "running", !.ident = 1]
                    ELSE NewThread]
    /\ op = <<"init", None>> /\ exc = "none" /\ ret = <<>>

NextCSM ==
    \E t \in Threads :
       \/ ThreadStart(t)
       \/ ThreadEnd(t)
       \/ IterStart(t)
       \/ IterStore(t)
       \/ PushApplication(t)
       \/ PushApplicationClear(t)
       \/ PopApplication(t)
       \/ PopApplicationPop(t)
       \/ PushThread(t)
       \/ PushThreadClear(t)
       \/ PopThread(t)

SpecCSM == InitCSM /\ [][NextCSM]_vars

(***************************************************************************)
(* One object of any of the three classes, with the operations of its      *)
(* class.                                                                  *)
(***************************************************************************)
InitAny == InitOD \/ InitLRU \/ InitLFU

NextAny ==
    \/ cls = "OrderedDict" /\ NextOD
    \/ cls = "LRUCache" /\ NextLRU
    \/ cls = "LFUCache" /\ NextLFU

SpecAny == InitAny /\ [][NextAny]_vars

(***************************************************************************)
(* SetQueue: a Queue.Queue whose _init, _put and _get keep a set of the    *)
(* queued items.  put, get, task_done and join are those of Queue.Queue;   *)
(* each runs under the mutex of the queue, so each is one step.  A call    *)
(* that would block is not enabled.                                        *)
(***************************************************************************)
\* no object of the classes above exists
NoCaches ==
    /\ NoOD
    /\ NoLFU
    /\ NoCSM
    /\ it = NoIterator /\ memo = Empty /\ called = FALSE

Items == {"foo", "bar", "baz"}

SQSelf == [queue |-> queue, set |-> _set_of_items]

\* _get that leaves the item in the set
SQ_get_keeps_set(s) == Out([s EXCEPT !.queue = Tail(@)], "none", <<Head(s.queue)>>)

\* SetQueue._put
SQ_put(s, item) ==
    IF item \notin s.set
    THEN [queue |-> Append(s.queue, item), set |-> s.set \cup {item}]
    ELSE s

\* SetQueue._get: popleft, and set.remove raises KeyError for an item that
\* is not in the set
SQ_get(s) ==
    LET item == Head(s.queue)
    IN IF item \in s.set
       THEN Out([queue |-> Tail(s.queue), set |-> s.set \ {item}], "none", <<item>>)
       ELSE Out([s EXCEPT !.queue = Tail(@)], "KeyError", <<>>)

SQFinish(name, item, o) ==
    /\ queue' = o.s.queue
    /\ _set_of_items' = o.s.set
    /\ op' = <<name, item>>
    /\ exc' = o.exc
    /\ ret' = o.ret

\* Queue.put(item) of a queue of maxsize 0: _put, unfinished_tasks += 1
SQPut(item) ==
    /\ Idle
    /\ unfinished_tasks < MaxTasks
    /\ SQFinish("put", item, Ok(SQ_put(SQSelf, item)))
    /\ unfinished_tasks' = unfinished_tasks + 1
    /\ UNCHANGED <<cls, od_vars, lfu_vars, it, memo, called, csm_vars,
                   fetched, ar_vars, pi_vars, sequences>>

\* Queue.get(): waits while the queue is empty, then _get
SQGet ==
    /\ Idle
    /\ queue # <<>>
    /\ SQFinish("get", None, SQ_get(SQSelf))
    /\ fetched' = fetched + 1
    /\ UNCHANGED <<cls, od_vars, lfu_vars, it, memo, called, csm_vars,
                   unfinished_tasks, ar_vars, pi_vars, sequences>>

\* Queue.task_done(), called by a consumer for an item it has got
SQTaskDone ==
    /\ Idle
    /\ fetched > 0
    /\ fetched' = fetched - 1
    /\ IF unfinished_tasks - 1 < 0
       THEN /\ SQFinish("task_done", None, Out(SQSelf, "ValueError", <<>>))
            /\ UNCHANGED unfinished_tasks
       ELSE /\ SQFinish("task_done", None, Ok(SQSelf))
            /\ unfinished_tasks' = unfinished_tasks - 1
    /\ UNCHANGED <<cls, od_vars, lfu_vars, it, memo, called, csm_vars,
                   ar_vars, pi_vars, sequences>>

\* Queue.join(): waits while unfinished_tasks is not 0, then returns
SQJoin ==
    /\ Idle
    /\ unfinished_tasks = 0
    /\ SQFinish("join", None, Ok(SQSelf))
    /\ UNCHANGED <<cls, od_vars, lfu_vars, it, memo, called, csm_vars,
                   unfinished_tasks, fetched, ar_vars, pi_vars, sequences>>

\* SetQueue()
InitSQ ==
    /\ cls = "SetQueue"
    /\ NoCaches
    /\ queue = <<>> /\ _set_of_items = {} /\ unfinished_tasks = 0 /\ fetched = 0
    /\ NoAsyncResult /\ NoPeekableIterator /\ NoCombinedList
    /\ op = <<"init", None>> /\ exc = "none" /\ ret = <<>>

NextSQ ==
    \/ \E item \in Items : SQPut(item)
    \/ SQGet
    \/ SQTaskDone
    \/ SQJoin
    \/ Return

SpecSQ == InitSQ /\ [][NextSQ]_vars

(***************************************************************************)
(* PeekableIterator over a list: iterator is the list iterator, the items  *)
(* of the list and the number of them it has produced.                     *)
(***************************************************************************)
PISelf == [iterator |-> iterator, remaining |-> remaining]

\* self.iterator.next()
ListIter_next(i) ==
    IF i.pos < Len(i.items)
    THEN Out([i EXCEPT !.pos = @ + 1], "none", <<i.items[i.pos + 1]>>)
    ELSE Out(i, "StopIteration", <<>>)

\* PeekableIterator.next
PI_next(s) ==
    IF s.remaining # <<>>
    THEN Out([s EXCEPT !.remaining = Tail(@)], "none", <<Head(s.remaining)>>)
    ELSE LET o == ListIter_next(s.iterator)
         IN Out([s EXCEPT !.iterator = o.s], o.exc, o.ret)

\* the loop of peek that takes items from the iterator and forgets them
RECURSIVE PI_peek_loop_forgets(_, _, _)
PI_peek_loop_forgets(s, items, n) ==
    IF Len(items) < n
    THEN LET o == ListIter_next(s.iterator)
         IN IF o.exc = "StopIteration" THEN Out(s, "none", <<items>>)
            ELSE PI_peek_loop_forgets([s EXCEPT !.iterator = o.s],
                                      Append(items, o.ret[1]), n)
    ELSE Out(s, "none", <<items>>)

\* PeekableIterator.peek, lines 37-44
RECURSIVE PI_peek_loop(_, _, _)
PI_peek_loop(s, items, n) ==
    IF Len(items) < n
    THEN LET o == ListIter_next(s.iterator)
         IN IF o.exc = "StopIteration" THEN Out(s, "none", <<items>>)
            ELSE PI_peek_loop([iterator |-> o.s,
                               remaining |-> Append(s.remaining, o.ret[1])],
                              Append(items, o.ret[1]), n)
    ELSE Out(s, "none", <<items>>)

\* PeekableIterator.peek
PI_peek(s, n) ==
    IF n < 1 THEN Out(s, "ValueError", <<>>)
    ELSE PI_peek_loop(s, SubSeq(s.remaining, 1, IF n < Len(s.remaining)
                                                THEN n ELSE Len(s.remaining)), n)

PIFinish(name, n, o) ==
    /\ iterator' = o.s.iterator
    /\ remaining' = o.s.remaining
    /\ op' = <<name, n>>
    /\ exc' = o.exc
    /\ ret' = o.ret
    /\ UNCHANGED <<cls, od_vars, lfu_vars, it, memo, called, csm_vars,
                   sq_vars, ar_vars, sequences>>

PINext == Idle /\ PIFinish("next", None, PI_next(PISelf))

PIPeek(n) == Idle /\ PIFinish("peek", n, PI_peek(PISelf, n))

\* PeekableIterator(iterable) for a list of at most MaxItems items
InitPI ==
    /\ cls = "PeekableIterator"
    /\ NoCaches
    /\ \E items \in SeqsUpTo({1, 2}, MaxItems) : iterator = [items |-> items, pos |-> 0]
    /\ remaining = <<>>
    /\ NoSetQueue /\ NoAsyncResult /\ NoCombinedList
    /\ op = <<"init", None>> /\ exc = "none" /\ ret = <<>>

NextPI ==
    \/ PINext
    \/ \E n \in (-1)..(MaxItems + 1) : PIPeek(n)
    \/ Return

SpecPI == InitPI /\ [][NextPI]_vars

(***************************************************************************)
(* CombinedList over two lists: sequences holds the underlying lists, a    *)
(* list is named by its position in sequences.                             *)
(***************************************************************************)
\* len(self) and list(self)
RECURSIVE Flat(_)
Flat(seqs) == IF seqs = <<>> THEN <<>> ELSE Head(seqs) \o Flat(Tail(seqs))

\* the loop of at_index for index >= 0, lines 401-404
RECURSIVE At_index_forward(_, _, _, _)
At_index_forward(seqs, k, seen, index) ==
    IF k > Len(seqs) THEN Out(seqs, "IndexError", <<>>)
    ELSE IF seen <= index /\ index < seen + Len(seqs[k])
         THEN Out(seqs, "none", <<k, index - seen>>)
         ELSE At_index_forward(seqs, k + 1, seen + Len(seqs[k]), index)

\* the loop of at_index for index < 0, lines 406-409
RECURSIVE At_index_reversed(_, _, _, _)
At_index_reversed(seqs, k, seen, index) ==
    IF k < 1 THEN Out(seqs, "IndexError", <<>>)
    ELSE IF seen >= index /\ index > seen - Len(seqs[k])
         THEN Out(seqs, "none", <<k, index - seen>>)
         ELSE At_index_reversed(seqs, k - 1, seen - Len(seqs[k]), index)

\* CombinedSequence.at_index
At_index(seqs, index) ==
    IF index >= 0 THEN At_index_forward(seqs, 1, 0, index)
    ELSE At_index_reversed(seqs, Len(seqs), 0, index)

\* del list[index] of a Python list
List_delitem(l, index) ==
    LET i == IF index < 0 THEN Len(l) + index ELSE index
    IN IF 0 <= i /\ i < Len(l)
       THEN Out(SubSeq(l, 1, i) \o SubSeq(l, i + 2, Len(l)), "none", <<>>)
       ELSE Out(l, "IndexError", <<>>)

\* del list[index] for the list and index that at_index returned
CL_del_at(seqs, at) ==
    LET o == List_delitem(seqs[at[1]], at[2])
    IN Out([seqs EXCEPT ![at[1]] = o.s], o.exc, <<>>)

\* the for loop of line 492 over the results of at_index
RECURSIVE CL_del_all(_, _)
CL_del_all(seqs, ats) ==
    IF ats = <<>> THEN Out(seqs, "none", <<>>)
    ELSE LET o == CL_del_at(seqs, Head(ats))
         IN IF o.exc # "none" THEN o ELSE CL_del_all(o.s, Tail(ats))

\* range(start, stop)
Range(start, stop) ==
    [p \in 1..(IF stop > start THEN stop - start ELSE 0) |-> start + p - 1]

\* CombinedList.__delitem__ for slice(start, stop): map calls at_index for
\* every index of the range before the loop deletes anything
CL_delslice(seqs, start, stop) ==
    LET ats == [p \in DOMAIN Range(start, stop) |-> At_index(seqs, Range(start, stop)[p])]
    IN IF \E p \in DOMAIN ats : ats[p].exc # "none"
       THEN Out(seqs, "IndexError", <<>>)
       ELSE CL_del_all(seqs, [p \in DOMAIN ats |-> ats[p].ret])

\* CombinedList.__delitem__ for an integer
CL_delitem(seqs, index) ==
    LET at == At_index(seqs, index)
    IN IF at.exc # "none" THEN Out(seqs, "IndexError", <<>>)
       ELSE CL_del_at(seqs, at.ret)

CLFinish(name, arg, o) ==
    /\ sequences' = o.s
    /\ op' = <<name, arg>>
    /\ exc' = o.exc
    /\ ret' = o.ret
    /\ UNCHANGED <<cls, od_vars, lfu_vars, it, memo, called, csm_vars,
                   sq_vars, ar_vars, pi_vars>>

DelSlice(start, stop) ==
    Idle /\ CLFinish("delslice", <<start, stop>>, CL_delslice(sequences, start, stop))

DelItem(index) == Idle /\ CLFinish("delitem", index, CL_delitem(sequences, index))

\* CombinedList([foo, bar]) for two lists of at most MaxLen items, the items
\* numbered in order as in range(n)
InitCL ==
    /\ cls = "CombinedList"
    /\ NoCaches
    /\ \E m \in 0..MaxLen, n \in 0..MaxLen :
          sequences = << [p \in 1..m |-> p - 1], [p \in 1..n |-> m + p - 1] >>
    /\ NoSetQueue /\ NoAsyncResult /\ NoPeekableIterator
    /\ op = <<"init", None>> /\ exc = "none" /\ ret = <<>>

NextCL ==
    \/ \E start \in 0..(2 * MaxLen), stop \in 0..(2 * MaxLen) : DelSlice(start, stop)
    \/ \E index \in (0 - 2 * MaxLen)..(2 * MaxLen) : DelItem(index)
    \/ Return

SpecCL == InitCL /\ [][NextCL]_vars

(***************************************************************************)
(* AsyncResult used by the threads Callers, made without callback and      *)
(* errback.  ready is self.ready; result holds the attributes self.value   *)
(* and self.success, which do not exist before set assigns them;           *)
(* condition is the list of waiters of self.condition, in the order they   *)
(* began to wait.  The lock of the condition is taken and given back       *)
(* within one step: the statements under it only touch ready and the       *)
(* waiters.  caller[t] is the method thread t is in, the statement it is   *)
(* at and the arguments of its call.  wait and get are called without a    *)
(* timeout.                                                                *)
(***************************************************************************)
Callers == 1..MaxCallers

IdleCaller == [method |-> "none", pc |-> "idle", args |-> <<>>]

ARAt(t, pc) == caller[t].pc = pc

ARGoto(t, pc) == caller' = [caller EXCEPT ![t].pc = pc]

ARDone(t) == caller' = [caller EXCEPT ![t] = IdleCaller]

ARFrame ==
    UNCHANGED <<cls, od_vars, lfu_vars, it, memo, called, csm_vars,
                sq_vars, pi_vars, sequences>>

\* Condition.notify(): n = 1, the first waiter is released and removed
Notify(waiters) == IF waiters = <<>> THEN <<>> ELSE Tail(waiters)

\* a thread calls wait() or get()
WaitCall(t, method) ==
    /\ ARAt(t, "idle")
    /\ caller' = [caller EXCEPT ![t] = [method |-> method, pc |-> "enter", args |-> <<>>]]
    /\ Pending
    /\ UNCHANGED <<ready, result, condition>>
    /\ ARFrame

\* wait, lines 87-89: with the lock, if not self.ready the thread joins the
\* waiters, gives the lock back and blocks
WaitEnter(t) ==
    /\ ARAt(t, "enter")
    /\ IF ready
       THEN ARGoto(t, "exit") /\ UNCHANGED condition
       ELSE ARGoto(t, "waiting") /\ condition' = Append(condition, t)
    /\ Pending
    /\ UNCHANGED <<ready, result>>
    /\ ARFrame

\* Condition.wait returns once notify has released the waiter: the thread
\* takes the lock again and leaves the with block
WaitWake(t) ==
    /\ ARAt(t, "waiting")
    /\ \A i \in DOMAIN condition : condition[i] # t
    /\ ARGoto(t, "exit")
    /\ Pending
    /\ UNCHANGED <<ready, result, condition>>
    /\ ARFrame

\* wait returns
WaitReturn(t) ==
    /\ ARAt(t, "exit")
    /\ caller[t].method = "wait"
    /\ ARDone(t)
    /\ Completed("wait", t, "none", <<>>)
    /\ UNCHANGED <<ready, result, condition>>
    /\ ARFrame

\* get, lines 100-101
GetReady(t) ==
    /\ ARAt(t, "exit")
    /\ caller[t].method = "get"
    /\ IF ready
       THEN ARGoto(t, "success") /\ Pending
       ELSE ARDone(t) /\ Completed("get", t, "TimeoutError", <<>>)
    /\ UNCHANGED <<ready, result, condition>>
    /\ ARFrame

\* get, line 102: if self.success
GetSuccess(t) ==
    /\ ARAt(t, "success")
    /\ ARGoto(t, IF result["success"] THEN "return" ELSE "raise")
    /\ Pending
    /\ UNCHANGED <<ready, result, condition>>
    /\ ARFrame

\* get, lines 103 and 105: return self.value or raise self.value
GetValue(t) ==
    /\ ARAt(t, "return") \/ ARAt(t, "raise")
    /\ ARDone(t)
    /\ Completed("get", t, IF ARAt(t, "return") THEN "none" ELSE "raised",
                 <<result["value"]>>)
    /\ UNCHANGED <<ready, result, condition>>
    /\ ARFrame

\* a thread calls set(obj, success); line 112: self.value = obj
SetValue(t, obj, success) ==
    /\ ARAt(t, "idle")
    /\ caller' = [caller EXCEPT ![t] = [method |-> "set", pc |-> "set_success",
                                        args |-> <<obj, success>>]]
    /\ result' = ("value" :> obj) @@ result
    /\ Pending
    /\ UNCHANGED <<ready, condition>>
    /\ ARFrame

\* set, line 113: self.success = success
SetSuccess(t) ==
    /\ ARAt(t, "set_success")
    /\ result' = ("success" :> caller[t].args[2]) @@ result
    /\ ARGoto(t, "set_ready")
    /\ Pending
    /\ UNCHANGED <<ready, condition>>
    /\ ARFrame

\* set, lines 118-120: with the lock, self.ready = True and notify()
SetReady(t) ==
    /\ ARAt(t, "set_ready")
    /\ ready' = TRUE
    /\ condition' = Notify(condition)
    /\ ARDone(t)
    /\ Completed("set", t, "none", <<>>)
    /\ UNCHANGED result
    /\ ARFrame

\* a statement of a call that thread t has begun
ARStep(t) ==
    \/ WaitEnter(t)
    \/ WaitWake(t)
    \/ WaitReturn(t)
    \/ GetReady(t)
    \/ GetSuccess(t)
    \/ GetValue(t)
    \/ SetSuccess(t)
    \/ SetReady(t)

\* AsyncResult()
InitAR ==
    /\ cls = "AsyncResult"
    /\ NoCaches
    /\ ready = FALSE
    /\ result = <<>>
    /\ condition = <<>>
    /\ caller = [t \in Callers |-> IdleCaller]
    /\ NoSetQueue /\ NoPeekableIterator /\ NoCombinedList
    /\ op = <<"idle", None>> /\ exc = "none" /\ ret = <<>>

NextAR ==
    \/ \E t \in Callers, method \in {"wait", "get"} : WaitCall(t, method)
    \/ \E t \in Callers, obj \in {"foo", "ValueError"}, success \in BOOLEAN :
          SetValue(t, obj, success)
    \/ \E t \in Callers : ARStep(t)

\* the threads are free to call or not to call
SpecAR == InitAR /\ [][NextAR]_vars

\* a thread that can go on with the call it is in does so in the end
SpecARFair == SpecAR /\ \A t \in Callers : WF_vars(ARStep(t))

(***************************************************************************)
(* Properties.  Self' and LFUSelf' are the objects after a step; op' names *)
(* the operation the step was.                                             *)
(***************************************************************************)
Size(s) == Cardinality(DOMAIN s.data)

Last(q) == q[Len(q)]

\* the sequence q without the key
Without(q, key) == SelectSeq(q, LAMBDA x : x # key)

Set(q) == {q[i] : i \in 1..Len(q)}

\* C1: for an LRUCache with maxsize N >= 1 the number of entries is at most
\* N after construction and after every public operation
C1_LRUSizeWithinMaxsize == maxsize >= 1 => Size(Self) <= maxsize

\* C2: for an LFUCache with maxsize N the number of entries is at most N
\* after construction and after every public operation or wrapped call,
\* whether or not the stored keys have been read
C2_LFUSizeWithinMaxsize == lfu_maxsize >= 0 => Size(LFUSelf) <= lfu_maxsize

\* C3: the keys a set on an LFUCache evicts are those of the lowest
\* use-counts (0 for a key never read): every evicted key has a use-count
\* at most that of every key that survives
C3_LFUEvictsLowestCounts ==
    [][(op'[1] = "set" /\ exc' = "none") =>
          \A e \in (DOMAIN lfu \cup {op'[2]}) \ DOMAIN lfu' :
             \A k \in DOMAIN lfu' :
                Count(usage_counter, e) <= Count(usage_counter, k)]_vars

\* C4: when a set of a new key pushes an LFUCache one past maxsize and
\* exactly one stored key has been read, that read key is removed and the
\* never-read keys and the new key remain
C4_LFUEvictsTheReadKey ==
    [][\A k \in Keys :
          \A r \in DOMAIN lfu :
             (/\ op' = <<"set", k>>
              /\ k \notin DOMAIN lfu
              /\ Size(LFUSelf) = lfu_maxsize
              /\ DOMAIN usage_counter \cap DOMAIN lfu = {r})
             => (exc' = "none" /\ DOMAIN lfu' = (DOMAIN lfu \cup {k}) \ {r})]_vars

\* C5: in an LRUCache (of maxsize N >= 1, holding at most N entries) get
\* and set (of a new or of a present key) are touches and items() lists the
\* entries from least to most recently touched: the key a get or set has
\* just touched is the last entry, and a set of a new key into a cache
\* holding N entries evicts exactly the first entry
C5_LRUOrderIsTouchOrder ==
    [][\A k \in Keys :
          (/\ maxsize >= 1 /\ Size(Self) <= maxsize
           /\ op'[1] \in {"get", "set"} /\ op'[2] = k /\ exc' = "none") =>
             /\ Last(OD_iter(Self')) = k
             /\ (op'[1] = "set" /\ k \notin DOMAIN data /\ Size(Self) = maxsize)
                  => DOMAIN data' = (DOMAIN data \cup {k}) \ {OD_iter(Self)[1]}]_vars

\* C6: a successful LRUCache get(k) returns the value stored for k and moves
\* k to the most recently used end; the keys, the values and the relative
\* order of the other keys are unchanged
C6_LRUGetMovesToEnd ==
    [][\A k \in Keys :
          (op' = <<"get", k>> /\ exc' = "none") =>
             /\ ret' = <<data[k]>>
             /\ data' = data
             /\ OD_iter(Self') = Without(OD_iter(Self), k) \o <<k>>]_vars

\* a get has moved a key past another one to the end
C6_Witness ==
    /\ op[1] = "get" /\ exc = "none"
    /\ Size(Self) >= 2
    /\ Last(OD_iter(Self)) = op[2]
    /\ maxsize = 2

\* C7: LRUCache.set (on a cache of maxsize N >= 1 holding at most N
\* entries) evicts only when the key is new and the cache is at capacity,
\* and then exactly the least recently used entry; a set of a present key
\* removes no entry
C7_LRUSetEvictsOnlyForNewKey ==
    [][\A k \in Keys :
          (/\ maxsize >= 1 /\ Size(Self) <= maxsize
           /\ op' = <<"set", k>> /\ exc' = "none") =>
             DOMAIN data' =
                IF k \in DOMAIN data THEN DOMAIN data
                ELSE IF Size(Self) >= maxsize
                     THEN (DOMAIN data \cup {k}) \ {OD_iter(Self)[1]}
                     ELSE DOMAIN data \cup {k}]_vars

\* C8: set on an LRUCache never raises, whatever maxsize it was constructed
\* with
C8_LRUSetNeverRaises == op[1] = "set" => exc = "none"

\* C9: no cache exists whose maxsize is negative: the constructor has
\* raised instead
C9_NoNegativeMaxsize == maxsize >= 0 /\ lfu_maxsize >= 0

\* C10: the keys of the dict, the keys of _map and the keys met walking
\* next from the sentinel back to the sentinel are the same set, each met
\* once, and n.next.prev = n = n.prev.next for every _Link n
C10_OrderedDictStructure ==
    /\ _root \in DOMAIN links /\ KeyOf(_root) = None
    /\ \A n \in DOMAIN links : links[n].next \in DOMAIN links /\ links[n].prev \in DOMAIN links
    /\ \A n \in DOMAIN links : links[links[n].next].prev = n /\ links[links[n].prev].next = n
    /\ DOMAIN _map = DOMAIN data
    /\ \A k \in DOMAIN _map : _map[k] \in DOMAIN links /\ KeyOf(_map[k]) = k
    /\ Len(OD_iter(Self)) = Size(Self)
    /\ Set(OD_iter(Self)) = DOMAIN data

\* a key has been unlinked from between two others
C10_Witness ==
    /\ op[1] \in {"delete", "pop", "move_to_end", "move_to_front"} /\ exc = "none"
    /\ Size(Self) >= 2

\* C11: set, delete and pop keep the order of last insertion while absent:
\* a set on a present key changes its value and nothing else, a set on an
\* absent key (never seen, or deleted before) appends it at the end with its
\* value, and a delete or pop takes the key out and leaves every other item
\* and the order of the others as they were
C11_InsertionOrder ==
    [][\A k \in Keys :
          /\ \A v \in Values :
                ODSet(k, v) =>
                   OD_items(Self') =
                      IF k \in DOMAIN data
                      THEN [i \in 1..Size(Self) |->
                              IF OD_items(Self)[i][1] = k THEN <<k, v>>
                              ELSE OD_items(Self)[i]]
                      ELSE OD_items(Self) \o << <<k, v>> >>
          /\ (op'[1] \in {"delete", "pop"} /\ op'[2] = k /\ exc' = "none") =>
                OD_items(Self') = SelectSeq(OD_items(Self), LAMBDA item : item[1] # k)]_vars

\* a set on a present key that is not the last one, which stayed in place
C11_Witness ==
    /\ op[1] = "set" /\ exc = "none" /\ Size(Self) >= 2
    /\ OD_iter(Self)[1] = op[2]

\* C12: move_to_end(k, last) on a present key makes k the last entry (the
\* first when last is False) and changes neither the keys, nor a value, nor
\* the relative order of the other keys
C12_MoveToEndFrame ==
    [][\A k \in Keys :
          /\ (op' = <<"move_to_end", k>> /\ exc' = "none") =>
                /\ data' = data
                /\ OD_iter(Self') = Without(OD_iter(Self), k) \o <<k>>
          /\ (op' = <<"move_to_front", k>> /\ exc' = "none") =>
                /\ data' = data
                /\ OD_iter(Self') = <<k>> \o Without(OD_iter(Self), k)]_vars

\* a key has been moved to the front of three
C12_Witness ==
    /\ op[1] = "move_to_front" /\ exc = "none" /\ Size(Self) = 3
    /\ OD_iter(Self)[1] = op[2]

\* C13: move_to_end is idempotent: in every reachable OrderedDict, for
\* every present key and either end, moving the key a second time leaves
\* the dict, _map and the linked list exactly as the first move left them
C13_MoveToEndIdempotent ==
    \A k \in DOMAIN data : \A l \in BOOLEAN :
       LET once == OD_move_to_end(Self, k, l)
           twice == OD_move_to_end(once.s, k, l)
       IN once.exc = "none" /\ twice.exc = "none" /\ twice.s = once.s

\* a move has just been made on a dict of three keys, so that the state is
\* the result of one move and the second move starts from it
C13_Witness ==
    /\ op[1] \in {"move_to_end", "move_to_front"} /\ exc = "none"
    /\ Size(Self) = 3 /\ Last(OD_iter(Self)) = op[2]

\* C14: a == b for two OrderedDicts returns True only if both hold the same
\* keys in the same order with equal values (dicts of different sizes are
\* unequal), and a != b returns the negation of a == b
C14_EqualOnlyIfSameItems ==
    [][\A m \in Mappings :
          /\ Eq(m) => (ret'[1] => OD_items(Self) = OD_items(OD_init(m)))
          /\ Ne(m) => (ret'[1] = ~OD_eq(Self, OD_init(m)))]_vars

\* C15: round trip: OrderedDict(m.items()) has the items() of m, in the
\* same order, and compares equal to m
C15_RoundTrip ==
    LET copy == OD_init(OD_items(Self))
    IN /\ OD_items(copy) = OD_items(Self)
       /\ OD_eq(copy, Self) /\ OD_eq(Self, copy)
       /\ ~OD_ne(copy, Self)

\* a dict of three keys whose order is not the order of the keys, reached
\* by a move
C15_Witness ==
    /\ op[1] \in {"move_to_end", "move_to_front"} /\ exc = "none"
    /\ Size(Self) = 3 /\ OD_iter(Self)[1] > OD_iter(Self)[2]

\* C16: an operation on an absent key raises KeyError and changes nothing:
\* delete, pop and move_to_end on an OrderedDict or LRUCache and get on an
\* LRUCache leave the entries and their order as they were, and get and
\* delete on an LFUCache leave the entries and the use-counts as they were
C16_AbsentKeyRaisesAndChangesNothing ==
    [][\A k \in Keys :
          /\ (/\ cls \in {"OrderedDict", "LRUCache"} /\ k \notin DOMAIN data
              /\ op'[1] \in {"delete", "pop", "move_to_end", "move_to_front", "get"}
              /\ op'[2] = k)
                => (exc' = "KeyError" /\ Self' = Self)
          /\ (/\ cls = "LFUCache" /\ k \notin DOMAIN lfu
              /\ op'[1] \in {"get", "delete"} /\ op'[2] = k)
                => (exc' = "KeyError" /\ LFUSelf' = LFUSelf)]_vars

\* a get of an absent key has raised on an LFUCache that holds a key that
\* was read
C16_Witness ==
    /\ cls = "LFUCache" /\ op[1] = "get" /\ exc = "KeyError"
    /\ op[2] \notin DOMAIN lfu /\ lfu # Empty /\ usage_counter # Empty

\* C17: popitem(last=True) on a non-empty OrderedDict removes and returns
\* the item that is last, popitem(last=False) the item that is first, and
\* the other items stay as they were, in their order; on an empty
\* OrderedDict popitem raises KeyError and leaves it empty and intact
C17_Popitem ==
    [][/\ (op'[1] \in {"popitem", "popitem_first"} /\ Size(Self) > 0) =>
            LET items == OD_items(Self)
                n == Len(items)
            IN /\ exc' = "none"
               /\ ret' = IF op'[1] = "popitem" THEN items[n] ELSE items[1]
               /\ OD_items(Self') = IF op'[1] = "popitem" THEN SubSeq(items, 1, n - 1)
                                                          ELSE SubSeq(items, 2, n)
               /\ DOMAIN data' = Set(OD_iter(Self'))
       /\ (op'[1] \in {"popitem", "popitem_first"} /\ Size(Self) = 0) =>
            (exc' = "KeyError" /\ Self' = Self)]_vars

\* the first of three items has been popped
C17_Witness ==
    /\ op[1] = "popitem_first" /\ exc = "none" /\ Size(Self) = 2
    /\ Len(ret) = 2 /\ ret[1] \notin DOMAIN data

\* C18: after clear() an OrderedDict is empty: no keys, no values, nothing
\* to iterate forwards or backwards, an empty _map; it is as a newly
\* constructed one, so that the order of the keys inserted afterwards is
\* that of the insertions made after the clear
C18_ClearStartsEmpty ==
    op[1] = "clear" =>
       /\ exc = "none"
       /\ data = Empty /\ _map = Empty
       /\ OD_iter(Self) = <<>> /\ OD_reversed(Self) = <<>>
       /\ \A m \in Mappings : OD_items(OD_update(Self, m)) = OD_items(OD_init(m))

\* a clear has returned
C18_Witness ==
    /\ op[1] = "clear" /\ exc = "none" /\ Size(Self) = 0
    /\ links[_root].next = _root

\* C20: a successful get(k) on an LFUCache returns the stored value and
\* adds exactly 1 to the use-count of k; no other use-count, no stored value
\* and not the set of keys changes
C20_LFUGetCountsOne ==
    [][\A k \in Keys :
          (op' = <<"get", k>> /\ exc' = "none") =>
             /\ k \in DOMAIN lfu /\ ret' = <<lfu[k]>>
             /\ lfu' = lfu
             /\ Count(usage_counter', k) = Count(usage_counter, k) + 1
             /\ \A j \in Keys \ {k} :
                   /\ Count(usage_counter', j) = Count(usage_counter, j)
                   /\ j \in DOMAIN usage_counter' <=> j \in DOMAIN usage_counter]_vars

\* a key of an LFUCache of two keys has been read, the other was read before
C20_Witness ==
    /\ op[1] = "get" /\ exc = "none" /\ Size(LFUSelf) >= 2
    /\ Count(usage_counter, op[2]) >= 1
    /\ \E j \in DOMAIN lfu \ {op[2]} : Count(usage_counter, j) >= 1

\* C19: whatever set, delete, move_to_end and clear do to an OrderedDict
\* between the steps of a key, value or item iteration, no step of the
\* iterator raises an error (it yields or stops), and the dict keeps its
\* structure: one closed loop from the sentinel through exactly the _Links
\* of its keys, with matching prev and next
C19_IterationSurvivesMutation ==
    /\ op[1] = "next" => exc \in {"none", "StopIteration"}
    /\ Len(OD_iter(Self)) = Size(Self)
    /\ Set(OD_iter(Self)) = DOMAIN data
    /\ DOMAIN _map = DOMAIN data
    /\ \A n \in LiveLinks(Self) :
          /\ n \in DOMAIN links
          /\ links[n].next \in LiveLinks(Self) /\ links[n].prev \in LiveLinks(Self)
          /\ links[links[n].next].prev = n /\ links[links[n].prev].next = n

\* C21: a set on a key that is already in an LFUCache (of maxsize >= 1) stores the value and
\* leaves the use-count of the key as it was: afterwards the key is present
\* with the new value and the same use-count
C21_LFUSetKeepsCount ==
    [][\A k \in Keys : \A v \in Values :
          (lfu_maxsize >= 1 /\ LFUSet(k, v) /\ k \in DOMAIN lfu) =>
             /\ exc' = "none"
             /\ k \in DOMAIN lfu' /\ lfu'[k] = v
             /\ Count(usage_counter', k) = Count(usage_counter, k)
             /\ k \in DOMAIN usage_counter' <=> k \in DOMAIN usage_counter]_vars

\* C22: no orphaned counters: after construction and after every operation
\* of an LFUCache (of maxsize >= 1) every key of usage_counter is a key of
\* the cache
C22_NoOrphanedCounters == lfu_maxsize >= 1 => DOMAIN usage_counter \subseteq DOMAIN lfu

\* C23: delete of a key that is in an LFUCache (of maxsize >= 1) succeeds whether or not the
\* key was ever read: no error is raised and afterwards the cache holds
\* neither a value nor a counter entry for it; only a delete of an absent
\* key raises KeyError
C23_LFUDeletePresentKey ==
    [][\A k \in Keys :
          (lfu_maxsize >= 1 /\ op' = <<"delete", k>>) =>
             IF k \in DOMAIN lfu
             THEN /\ exc' = "none"
                  /\ k \notin DOMAIN lfu' /\ k \notin DOMAIN usage_counter'
             ELSE exc' = "KeyError"]_vars

\* C24: memoize: a call whose key is in the cache returns the stored result
\* without calling the function; a call whose key is not in the cache calls
\* the function once and, when it returns, stores and returns its result;
\* nothing but clear() removes or changes a stored result, so between two
\* clear() calls the function is called at most once for a key
C24_MemoizeCallsOncePerKey ==
    [][/\ op'[1] = "call" =>
            LET args == op'[2][1]
                kwargs == KwDict(op'[2][2])
            IN \A items \in ItemOrders(kwargs) :
                  LET key == MakeKey(args, items)
                  IN IF key \in DOMAIN memo
                     THEN /\ ~called'
                          /\ exc' = "none"
                          /\ ret' = <<memo[key]>>
                          /\ memo' = memo
                     ELSE /\ called'
                          /\ exc' = "none" => /\ ret' = <<FM(args, kwargs)>>
                                              /\ memo' = Put(memo, key, FM(args, kwargs))
       /\ op'[1] # "clear" =>
             \A key \in DOMAIN memo : key \in DOMAIN memo' /\ memo'[key] = memo[key]]_vars

\* a call was answered from the cache after a clear()
C24_Witness ==
    /\ cls = "_MemoizeCache"
    /\ op[1] = "call" /\ ~called /\ exc = "none"
    /\ MaxsizeKey \notin DOMAIN memo

\* C25: two calls with the same positional arguments and the same keyword
\* arguments, written or enumerated in a different order, have the same
\* cache key, and the second of them is answered from the cache without
\* calling the function
C25_KeywordOrderIrrelevant ==
    [][op'[1] = "call" =>
          LET args == op'[2][1]
              kw2 == op'[2][2]
          IN \A kw1 \in KwSeqs :
                KwDict(kw1) = KwDict(kw2) =>
                   \A items1 \in ItemOrders(KwDict(kw1)), items2 \in ItemOrders(KwDict(kw2)) :
                      /\ MakeKey(args, items1) = MakeKey(args, items2)
                      /\ MakeKey(args, items1) \in DOMAIN memo =>
                            /\ ~called'
                            /\ exc' = "none"
                            /\ ret' = <<memo[MakeKey(args, items1)]>>]_vars

\* a call with the keywords b, a was answered from the cache
C25_Witness ==
    /\ cls = "_MemoizeCache"
    /\ op[1] = "call" /\ ~called
    /\ \E args \in ArgTuples : op[2] = <<args, << <<"b", "1">>, <<"a", "1">> >> >>

\* C27: when the function raises, the call raises the same exception and
\* the cache is as before, without an entry for the key, so that the next
\* call with these arguments calls the function again
C27_ExceptionNotCached ==
    [][(op'[1] = "call" /\ called' /\ exc' # "none") =>
          /\ exc' = "Exception"
          /\ ret' = <<>>
          /\ memo' = memo
          /\ \A items \in ItemOrders(KwDict(op'[2][2])) :
                MakeKey(op'[2][1], items) \notin DOMAIN memo']_vars

\* the function raised while the cache held results
C27_Witness ==
    /\ cls = "_MemoizeCache"
    /\ op[1] = "call" /\ called /\ exc = "Exception"
    /\ \E key \in DOMAIN memo : key # MaxsizeKey

\* C26: a function decorated with memoize, LRUCache.decorate(N) or
\* LFUCache.decorate(N) (N >= 1) works as a memoized function after
\* clear(): clear() empties the cache, so the next call calls the function;
\* from then on a call whose key is cached returns the stored result
\* without calling the function, and any other call calls the function
\* and returns its result or raises what the function raised
C26_ClearKeepsWrapperWorking ==
    [][/\ op'[1] = "clear" =>
            /\ exc' = "none"
            /\ memo' = Empty /\ data' = Empty /\ lfu' = Empty
       /\ (op'[1] = "call" /\ cls = "_MemoizeCache") =>
            \/ ~called' /\ exc' = "none" /\ ret'[1] \in {memo[key] : key \in DOMAIN memo}
            \/ called' /\ exc' = "none"
                  /\ ret' = <<FM(op'[2][1], KwDict(op'[2][2]))>>
            \/ called' /\ exc' = "Exception"
       /\ (op'[1] = "call" /\ cls = "LRUCache" /\ maxsize >= 1) =>
            IF op'[2] \in DOMAIN data
            THEN ~called' /\ exc' = "none" /\ ret' = <<data[op'[2]]>>
            ELSE /\ called'
                 /\ \/ exc' = "none" /\ ret' = <<F(op'[2])>>
                    \/ exc' = "Exception"
       /\ (op'[1] = "call" /\ cls = "LFUCache" /\ lfu_maxsize >= 1) =>
            IF op'[2] \in DOMAIN lfu
            THEN ~called' /\ exc' = "none" /\ ret' = <<lfu[op'[2]]>>
            ELSE /\ called'
                 /\ \/ exc' = "none" /\ ret' = <<F(op'[2])>>
                    \/ exc' = "Exception"]_vars

\* C28: LRUCache.decorate(N) with N >= 1 caches at most N results, those of
\* the N most recently used keys: a call whose key is cached returns the
\* stored result without calling the function and makes the key the most
\* recently used; any other call calls the function and stores its result
\* as the most recently used, dropping the least recently used entry when
\* N results are cached.  So a call is a miss again after N calls with
\* other distinct keys.
C28_LRUDecorateKeepsNMostRecent ==
    [][maxsize >= 1 =>
          /\ Cardinality(DOMAIN data') <= maxsize
          /\ op'[1] = "call" =>
                LET k == op'[2]
                    order == OD_iter(Self)
                IN IF k \in DOMAIN data
                   THEN /\ ~called'
                        /\ exc' = "none"
                        /\ ret' = <<data[k]>>
                        /\ OD_iter(Self') = Without(order, k) \o <<k>>
                   ELSE /\ called'
                        /\ IF exc' = "none"
                           THEN /\ ret' = <<F(k)>>
                                /\ data'[k] = F(k)
                                /\ OD_iter(Self') =
                                      (IF Len(order) >= maxsize THEN Tail(order) ELSE order)
                                         \o <<k>>
                           ELSE /\ exc' = "Exception"
                                /\ OD_iter(Self') = order]_vars

\* with N = 2: after the calls for the keys 1, 2, 3 the call for the key 1
\* has called the function again, and the results for 3 and 1 are cached
C28_Witness ==
    /\ cls = "LRUCache" /\ maxsize = 2
    /\ op = <<"call", 1>> /\ called /\ exc = "none"
    /\ OD_iter(Self) = <<3, 1>>

\* C29: pop_application and pop_thread remove and return the object pushed
\* last onto the application stack and onto the stack of the calling thread,
\* and leave the other stacks alone; when that stack holds no object they
\* raise RuntimeError and change no stack; the view that
\* iter_current_stack computes lists the objects of the calling thread and
\* then those of the application stack, each from the last pushed to the
\* first
C29_PopReturnsLastPushed ==
    [][/\ op'[1] = "pop_application" =>
            IF _application_stack = <<>>
            THEN /\ exc' = "RuntimeError"
                 /\ _application_stack' = _application_stack /\ objects' = objects
            ELSE /\ exc' = "none"
                 /\ ret' = <<Last(_application_stack)[2]>>
                 /\ _application_stack' =
                       SubSeq(_application_stack, 1, Len(_application_stack) - 1)
                 /\ objects' = objects
       /\ op'[1] = "pop_thread" =>
            IF objects[op'[2]] = <<>>
            THEN /\ exc' = "RuntimeError"
                 /\ _application_stack' = _application_stack /\ objects' = objects
            ELSE /\ exc' = "none"
                 /\ ret' = <<Last(objects[op'[2]])[2]>>
                 /\ objects' = [objects EXCEPT
                                  ![op'[2]] = SubSeq(@, 1, Len(@) - 1)]
                 /\ _application_stack' = _application_stack
       /\ \A t \in Threads :
            (thread[t].pc = "idle" /\ thread'[t].pc = "iter_store") =>
               thread'[t].view =
                  [i \in 1..Len(objects[t]) |->
                      objects[t][Len(objects[t]) + 1 - i][2]] \o
                  [i \in 1..Len(_application_stack) |->
                      _application_stack[Len(_application_stack) + 1 - i][2]]]_vars

\* C30: the objects that iter_current_stack returns in a thread are objects
\* of the application stack or objects that this thread pushed with
\* push_thread, never an object that another thread pushed with push_thread
C30_ThreadStackIsLocal ==
    (op[1] = "iter_current_stack" /\ exc = "none") =>
       \A i \in 1..Len(ret[1]) : ret[1][i][2] \in {None, op[2]}

\* C36: a call of a memoized function that returns, returns the result of
\* the function for the positional and keyword arguments of this call,
\* never a result that was computed for a call with other arguments
C36_MemoizeKeysAreSeparate ==
    [][(op'[1] = "call" /\ exc' = "none") =>
          ret' = <<FM(op'[2][1], KwDict(op'[2][2]))>>]_vars

\* C37: a set on an LFUCache (of maxsize >= 1) raises nothing in any
\* reachable state, and a call of a function decorated with it raises
\* nothing but what the function raised
C37_LFUSetNeverRaises ==
    lfu_maxsize >= 1 =>
       /\ op[1] = "set" => exc = "none"
       /\ op[1] = "call" => exc \in {"none", "Exception"}

\* C40: popitem on an LFUCache that holds entries removes one of them,
\* returns it as (key, value) and leaves no use-count of that key, whether
\* or not the key was read; popitem on an empty LFUCache raises KeyError
C40_LFUPopitem ==
    [][(cls = "LFUCache" /\ op'[1] = "popitem") =>
          IF lfu = Empty
          THEN exc' = "KeyError"
          ELSE /\ exc' = "none"
               /\ \E k \in DOMAIN lfu :
                     /\ ret' = <<k, lfu[k]>>
                     /\ lfu' = Del(lfu, k)
                     /\ k \notin DOMAIN usage_counter']_vars

\* C38: whatever set, delete, move_to_end and clear do to an OrderedDict
\* between the steps of a key iteration, a step that yields, yields a key,
\* never the key None of a sentinel
C38_IterationYieldsKeys ==
    [][(op'[1] = "next" /\ it.kind = "keys" /\ exc' = "none") =>
          ret'[1] \in Keys]_vars

\* C35: the cache of a ContextStackManager is never stale: an
\* iter_current_stack call that starts when every push and pop call has
\* completed, and is answered from the cache, returns the objects that are
\* on the stacks at that moment (here for threads of which none has ended,
\* so that no identifier was used twice)
C35_CacheNeverStale ==
    [][\A t \in Threads :
          (/\ op' = <<"iter_current_stack", t>>
           /\ thread[t].pc = "idle"
           /\ \A u \in Threads :
                 /\ thread[u].state # "ended"
                 /\ thread[u].pc \in {"idle", "iter_store"}) =>
             ret' = <<CSM_current_stack(t)>>]_vars

C39_JoinReturns ==
    (cls = "SetQueue" /\ queue = <<>> /\ fetched = 0) => unfinished_tasks = 0

\* the number of items that next() has produced
Consumed == iterator.pos - Len(remaining)

Sliced(seqs, start, stop) ==
    {Flat(seqs)[p] : p \in (start + 1)..stop}

\* C34: del s[i:j] with 0 <= i <= j <= len(s) removes exactly the items at
\* the combined positions i..j-1, also when several of them lie in the same
\* underlying list: every underlying list keeps its other items in order
C34_DelSliceRemovesPositions ==
    [][(cls = "CombinedList" /\ op'[1] = "delslice"
        /\ op'[2][1] <= op'[2][2] /\ op'[2][2] <= Len(Flat(sequences))) =>
          /\ exc' = "none"
          /\ \A k \in DOMAIN sequences :
                sequences'[k] =
                    SelectSeq(sequences[k],
                              LAMBDA x : x \notin Sliced(sequences, op'[2][1], op'[2][2]))]_vars

\* C32: once set() has been called, every thread that is in wait() or get(),
\* however many there are, returns in the end
C32_WaitersReturn ==
    \A t \in Callers :
        (ready /\ caller[t].method \in {"wait", "get"}) ~> (caller[t].method = "none")

====
